---- MODULE Spec2Model ----
(***************************************************************************)
(* A model of the in-memory filesystem crate: the extent map of a regular  *)
(* file (writer, reader, clone, truncate) and the inode/path store.        *)
(*                                                                         *)
(* Two groups of state share the module.  SpecWriter and SpecFile drive    *)
(* one File through its Writer, clone and truncate; SpecFs drives one      *)
(* Filesystem through its store operations.                                *)
(***************************************************************************)
EXTENDS Integers, Sequences, FiniteSets, TLC

VARIABLES
    extents,    \* File.extents: BTreeMap<u64, Extent>, a function key -> extent
    writer,     \* the live Writer, [open, pos]; a Writer borrows the file mutably
    nwrites,    \* number of Writer::write calls so far (names the bytes written)
    flat,       \* reference: the same seeks and writes applied to a flat buffer
    gapless,    \* history: every write so far started at pos <= len(file)
    last,       \* history: the last file operation, its arguments and pre-state
    inodes,     \* Filesystem.inodes: SlotMap<InodeKey, Entry>, keys 1..Len
    refcounts,  \* Filesystem.refcounts: SecondaryMap<InodeKey, usize>
    paths,      \* Filesystem.paths: BTreeMap<BytesPath, InodeKey>
    res,        \* history: the last store operation, its arguments and result
    other,      \* a second Filesystem, the right-hand side of comparisons
    cmpres,     \* history: what the last comparison of the two filesystems returned
    subvols,    \* Subvols.0: BTreeMap<Uuid, Subvol>, a function uuid -> Subvol
    recv,       \* history: the last receive, its sendstream, the map before, its result
    ecmp        \* two entries, and what the last cmp / approx_eq of the two returned

fileVars == <<extents, writer, nwrites, flat, gapless, last>>
fsVars == <<inodes, refcounts, paths, res>>
cmpVars == <<other, cmpres>>
recvVars == <<subvols, recv>>
entVars == <<ecmp>>
vars == <<extents, writer, nwrites, flat, gapless, last, inodes, refcounts, paths, res,
          other, cmpres, subvols, recv, ecmp>>

----------------------------------------------------------------------------
(* Bounds *)

MaxPos == 3         \* seek targets and truncate lengths are drawn from 0..MaxPos
MaxWriteLen == 3    \* a write carries 1..MaxWriteLen bytes
U64Bits == 4         \* the width positions are kept at: u64 scaled down to 4 bits
MaxSeek == 1         \* relative seeks move by -MaxSeek..MaxSeek, or by i64::MIN / i64::MAX
MaxSeekWrites == 2   \* Writer::write calls per behaviour among relative seeks
MaxWrites == 3      \* Writer::write calls per behaviour

----------------------------------------------------------------------------
(* Small helpers *)

Max(S) == CHOOSE x \in S : \A y \in S : y <= x

Min2(a, b) == IF a <= b THEN a ELSE b

Max2(a, b) == IF a >= b THEN a ELSE b

\* d[from..to) of a Rust slice, offsets counted from 0
Slice(d, from, to) == SubSeq(d, from + 1, to)

ZeroByte == <<0, 0>>

Zeros(n) == [i \in 1..n |-> ZeroByte]

\* the bytes of the n-th write: pairwise distinct, distinct from every other write
WriteData(n, len) == [i \in 1..len |-> <<n, i>>]

----------------------------------------------------------------------------
(* Extent *)

\* Extent::Owned over borrowed bytes (From<&[u8]>, From<&str>); cow is the
\* storage of the bytes, Cow::Borrowed or Cow::Owned
Owned(d) == [kind |-> "Owned", data |-> d, src_range |-> <<0, 0>>, cow |-> "Borrowed"]

\* Extent::Owned over a Vec (From<Vec<u8>>)
OwnedVec(d) == [kind |-> "Owned", data |-> d, src_range |-> <<0, 0>>, cow |-> "Owned"]

\* Extent::Cloned: File::clone borrows the bytes of the source extent
Cloned(range, d) == [kind |-> "Cloned", data |-> d, src_range |-> range, cow |-> "Borrowed"]

\* a zero-filled span; reading it yields zeros
Hole(n) == [kind |-> "Hole", data |-> Zeros(n), src_range |-> <<0, 0>>, cow |-> "Borrowed"]

ExtentLen(e) == Len(e.data)

\* Vec::truncate: keeps the first n elements, no effect when n >= len
VecTruncate(d, n) == IF n >= Len(d) THEN d ELSE SubSeq(d, 1, n)

\* split_cow_in_place with an Owned arm that copies the tail but does not
\* truncate the buffer
split_cow_in_place_no_truncate(cow, d, pos) ==
    IF cow = "Owned"
    THEN [left |-> d, right |-> Slice(d, pos, Len(d))]
    ELSE [left |-> Slice(d, 0, pos), right |-> Slice(d, pos, Len(d))]

\* split_cow_in_place: the buffer keeps [0, pos), the result is [pos, len).
\* Cow::Owned: right = d[pos..].to_vec(), then d.truncate(pos);
\* Cow::Borrowed: the two halves of slice::split_at(pos)
split_cow_in_place(cow, d, pos) ==
    IF cow = "Owned"
    THEN [left |-> VecTruncate(d, pos), right |-> Slice(d, pos, Len(d))]
    ELSE [left |-> Slice(d, 0, pos), right |-> Slice(d, pos, Len(d))]

\* Extent::split_at: the extent is cut in place to its left part, the right
\* part is returned.  The Cloned arm leaves the left src_range as it was and
\* computes the right one with max/min of the split position.
split_at(e, pos) ==
    LET c == split_cow_in_place(e.cow, e.data, pos) IN
    IF e.kind = "Cloned"
    THEN [left  |-> [e EXCEPT !.data = c.left],
          right |-> [e EXCEPT !.data = c.right,
                              !.src_range = <<Max2(pos, e.src_range[1]),
                                              Min2(pos, e.src_range[2])>>]]
    ELSE [left  |-> [e EXCEPT !.data = c.left],
          right |-> [e EXCEPT !.data = c.right]]

----------------------------------------------------------------------------
(* File *)

EmptyFile == [k \in {} |-> Owned(<<>>)]

\* BTreeMap::insert
MapInsert(f, k, e) == [x \in DOMAIN f \cup {k} |-> IF x = k THEN e ELSE f[x]]

\* File::len without the length of the last extent: its start alone
FileLen_StartOnly(f) ==
    IF DOMAIN f = {} THEN 0 ELSE Max(DOMAIN f)

\* File::len: start + length of the extent with the greatest key
FileLen(f) ==
    IF DOMAIN f = {} THEN 0
    ELSE LET s == Max(DOMAIN f) IN s + ExtentLen(f[s])

\* File::extent_for_byte(_mut): the greatest key <= pos, kept when
\* pos <= start + len.  The result is {} (None) or {start}.
extent_for_byte(f, pos) ==
    LET below == {k \in DOMAIN f : k < pos + 1} IN
    IF below = {} THEN {}
    ELSE LET start == Max(below) IN
         IF pos <= start + ExtentLen(f[start]) THEN {start} ELSE {}

\* the first `if let` of Writer::write, taken: the extent at existing_start
\* keeps the left part of sp, the right part is inserted at write_end
EndSplitFound(f, write_end, existing_start, sp) ==
    MapInsert(MapInsert(f, existing_start, sp.left), write_end, sp.right)

\* the first `if let` of Writer::write: the extent extent_for_byte_mut finds
\* for write_end (hit1) is split at write_end - existing_start
EndSplit(f, write_end, hit1) ==
    IF hit1 = {} THEN f
    ELSE EndSplitFound(f, write_end, CHOOSE s \in hit1 : TRUE,
                       split_at(f[CHOOSE s \in hit1 : TRUE],
                                write_end - (CHOOSE s \in hit1 : TRUE)))

\* the second `if let` of Writer::write, taken: the extent at existing_start
\* keeps the left part of sp; the right part, when longer than
\* right_split_idx, is cut to that length and inserted at write_end
StartSplitFound(f, write_end, existing_start, right_split_idx, sp) ==
    IF right_split_idx < ExtentLen(sp.right)
    THEN MapInsert(MapInsert(f, existing_start, sp.left),
                   write_end, split_at(sp.right, right_split_idx).left)
    ELSE MapInsert(f, existing_start, sp.left)

\* the second `if let` of Writer::write: the extent extent_for_byte_mut finds
\* for self.pos (hit2) is split at split_idx = write_start - existing_start;
\* right_split_idx = write_end - split_idx
StartSplit(f, write_start, write_end, hit2) ==
    IF hit2 = {} THEN f
    ELSE StartSplitFound(f, write_end, CHOOSE s \in hit2 : TRUE,
                         write_end - (write_start - (CHOOSE s \in hit2 : TRUE)),
                         split_at(f[CHOOSE s \in hit2 : TRUE],
                                  write_start - (CHOOSE s \in hit2 : TRUE)))

\* the end of Writer::write on the map f1 the first `if let` left: the second
\* `if let`, then the insert of the extent at self.pos
WriteAfterEndSplit(f1, pos, write_end, extent) ==
    MapInsert(StartSplit(f1, pos, write_end, extent_for_byte(f1, pos)), pos, extent)

\* Writer::write without the split of the extent that covers write_end
WriterWrite_no_end_split(f, pos, extent) ==
    WriteAfterEndSplit(f, pos, pos + ExtentLen(extent), extent)

\* Writer::write, returning the new extent map
WriterWrite(f, pos, extent) ==
    WriteAfterEndSplit(EndSplit(f, pos + ExtentLen(extent),
                                extent_for_byte(f, pos + ExtentLen(extent))),
                       pos, pos + ExtentLen(extent), extent)

\* Reader::read with a buffer of buf_len bytes at position pos:
\* [panic, n, data]; panic is the unreachable!() arm
ReaderRead(f, pos, buf_len) ==
    IF pos >= FileLen(f) THEN [panic |-> FALSE, n |-> 0, data |-> <<>>]
    ELSE LET hit == extent_for_byte(f, pos) IN
         IF hit = {} THEN [panic |-> TRUE, n |-> 0, data |-> <<>>]
         ELSE LET extent_start == CHOOSE s \in hit : TRUE
                  remaining_in_extent == extent_start + ExtentLen(f[extent_start]) - pos
                  read_len == Min2(buf_len, remaining_in_extent)
                  extent_offset == pos - extent_start
              IN [panic |-> FALSE, n |-> read_len,
                  data |-> Slice(f[extent_start].data, extent_offset, extent_offset + read_len)]

\* read_to_end into Vec::with_capacity(self.len()): each read is handed the
\* spare capacity; a read of 0 bytes ends it
RECURSIVE ReadToEnd(_, _, _)
ReadToEnd(f, pos, v) ==
    LET spare == FileLen(f) - Len(v)
        r == ReaderRead(f, pos, IF spare > 0 THEN spare ELSE 1)
    IN IF r.panic THEN [panic |-> TRUE, bytes |-> v]
       ELSE IF r.n = 0 THEN [panic |-> FALSE, bytes |-> v]
       ELSE ReadToEnd(f, pos + r.n, v \o r.data)

\* File::to_bytes by a single read call instead of read_to_end
to_bytes_one_read(f) ==
    LET r == ReaderRead(f, 0, FileLen(f)) IN [panic |-> r.panic, bytes |-> r.data]

\* File::to_bytes
to_bytes(f) == ReadToEnd(f, 0, <<>>)

\* File::clone(range): one Cloned extent per extent whose key lies in the range
RECURSIVE CloneFrom(_, _, _, _)
CloneFrom(f, keys, start, end) ==
    IF keys = {} THEN <<>>
    ELSE LET ext_start == CHOOSE k \in keys : \A j \in keys : k <= j
             ext == f[ext_start]
             s == Max2(start, ext_start)
             e == Min2(end, ext_start + ExtentLen(ext))
         IN <<Cloned(<<s, e>>, Slice(ext.data, s - ext_start, e - ext_start))>>
            \o CloneFrom(f, keys \ {ext_start}, start, end)

clone_range(f, start, end) ==
    CloneFrom(f, {k \in DOMAIN f : start <= k /\ k < end}, start, end)

\* File::truncate(new_len)
truncate(f, new_len) ==
    LET len == FileLen(f) IN
    IF new_len < len
    THEN LET kept == {k \in DOMAIN f : k < new_len}
             g == [k \in kept |-> f[k]]
         IN IF kept = {} THEN g
            ELSE LET s == Max(kept) IN
                 IF s + ExtentLen(g[s]) > new_len
                 THEN MapInsert(g, s, split_at(g[s], new_len - s).left)
                 ELSE g
    ELSE IF new_len > len
    THEN MapInsert(f, len, Hole(new_len - len))
    ELSE f

----------------------------------------------------------------------------
(* The reference: a flat byte buffer under the same seeks and writes *)

FlatWrite(buf, pos, d) ==
    LET n == Max2(Len(buf), pos + Len(d)) IN
    [i \in 1..n |->
        IF i > pos /\ i <= pos + Len(d) THEN d[i - pos]
        ELSE IF i <= Len(buf) THEN buf[i]
        ELSE ZeroByte]

FlatTruncate(buf, n) ==
    [i \in 1..n |-> IF i <= Len(buf) THEN buf[i] ELSE ZeroByte]

RECURSIVE Concat(_)
Concat(es) == IF es = <<>> THEN <<>> ELSE Head(es).data \o Concat(Tail(es))

----------------------------------------------------------------------------
(* File operations *)

\* the record of a file operation: its name, two numeric arguments, the extent
\* map before it and what it returned
Did(op, a, b, pre, out) == [op |-> op, a |-> a, b |-> b, pre |-> pre, out |-> out]

NoOp == Did("none", 0, 0, EmptyFile, <<>>)

\* File::writer: a Writer opened at the end of the file
OpenWriter ==
    /\ ~writer.open
    /\ writer' = [open |-> TRUE, pos |-> FileLen(extents)]
    /\ last' = Did("writer", 0, 0, EmptyFile, <<>>)
    /\ UNCHANGED <<extents, nwrites, flat, gapless>>

\* the Writer is dropped, releasing its borrow of the file
DropWriter ==
    /\ writer.open
    /\ writer' = [open |-> FALSE, pos |-> 0]
    /\ last' = Did("drop", 0, 0, EmptyFile, <<>>)
    /\ UNCHANGED <<extents, nwrites, flat, gapless>>

\* Seek for Writer, SeekFrom::Start(n)
SeekStart(n) ==
    /\ writer.open
    /\ writer' = [writer EXCEPT !.pos = n]
    /\ last' = Did("seek", n, 0, EmptyFile, <<>>)
    /\ UNCHANGED <<extents, nwrites, flat, gapless>>

\* u64::MAX, i64::MAX and i64::MIN at the width of the model
U64Max == 2^U64Bits - 1

I64Max == 2^(U64Bits - 1) - 1

I64Min == 0 - 2^(U64Bits - 1)

\* u64::wrapping_add_signed
wrapping_add_signed(base, offset) == {(base + offset) % (U64Max + 1)}

\* u64::checked_add_signed: {} (None) when the sum is negative or overflows
checked_add_signed(base, offset) ==
    LET n == base + offset IN IF n < 0 \/ n > U64Max THEN {} ELSE {n}

\* Seek for Writer, SeekFrom::End(n) and SeekFrom::Current(n): the position
\* after the call and what it returned
writer_seek(base_pos, pos, offset) ==
    LET sum == checked_add_signed(base_pos, offset) IN
    IF sum = {} THEN [pos |-> pos, result |-> "InvalidInput", n |-> 0]
    ELSE LET n == CHOOSE x \in sum : TRUE IN [pos |-> n, result |-> "Ok", n |-> n]

\* Seek for Writer, SeekFrom::Current(n)
SeekCurrent(n) ==
    /\ writer.open
    /\ LET r == writer_seek(writer.pos, writer.pos, n) IN
        /\ writer' = [writer EXCEPT !.pos = r.pos]
        /\ last' = Did("seek_current", n, 0, EmptyFile, <<r.result, r.n>>)
    /\ UNCHANGED <<extents, nwrites, flat, gapless>>

\* Seek for Writer, SeekFrom::End(n)
SeekEnd(n) ==
    /\ writer.open
    /\ LET r == writer_seek(FileLen(extents), writer.pos, n) IN
        /\ writer' = [writer EXCEPT !.pos = r.pos]
        /\ last' = Did("seek_end", n, 0, EmptyFile, <<r.result, r.n>>)
    /\ UNCHANGED <<extents, nwrites, flat, gapless>>

\* io::Write for Writer: an Owned extent of the bytes goes through Writer::write
Write(len) ==
    /\ writer.open
    /\ nwrites < MaxWrites
    /\ writer.pos + len <= U64Max
    /\ LET d == WriteData(nwrites + 1, len) IN
        /\ extents' = WriterWrite(extents, writer.pos, Owned(d))
        /\ writer' = [writer EXCEPT !.pos = writer.pos + len]
        /\ flat' = FlatWrite(flat, writer.pos, d)
        /\ gapless' = (gapless /\ writer.pos <= FileLen(extents))
        /\ last' = Did("write", writer.pos, len, extents, <<>>)
    /\ nwrites' = nwrites + 1

\* File::clone on the file, no Writer alive
Clone(start, end) ==
    /\ ~writer.open
    /\ start <= end
    /\ end <= FileLen(extents)
    /\ last' = Did("clone", start, end, EmptyFile, clone_range(extents, start, end))
    /\ UNCHANGED <<extents, writer, nwrites, flat, gapless>>

\* File::truncate on the file, no Writer alive
Truncate(n) ==
    /\ ~writer.open
    /\ extents' = truncate(extents, n)
    /\ flat' = FlatTruncate(flat, n)
    /\ last' = Did("truncate", n, 0, extents, <<>>)
    /\ UNCHANGED <<writer, nwrites, gapless>>

InitFile ==
    /\ extents = EmptyFile
    /\ writer = [open |-> FALSE, pos |-> 0]
    /\ nwrites = 0
    /\ flat = <<>>
    /\ gapless = TRUE
    /\ last = NoOp

\* Filesystem::new
NewFilesystem == [inodes |-> <<>>, refcounts |-> <<>>, paths |-> <<>>]

\* no comparison made since the filesystems last changed
NotCompared ==
    [done |-> FALSE, ab |-> {}, ba |-> {}, eq |-> FALSE, n |-> 0,
     diffed |-> FALSE, fields |-> {}, diff |-> <<>>]

InitCmp ==
    /\ other = NewFilesystem
    /\ cmpres = NotCompared

\* a command of a sendstream; the fields a command does not carry are empty
Cmd(cmd, uuid, clone_uuid, path, to, mode, n) ==
    [cmd |-> cmd, uuid |-> uuid, clone_uuid |-> clone_uuid, path |-> path, to |-> to,
     mode |-> mode, n |-> n, len |-> 0, dst_off |-> 0, data |-> <<>>]

\* Command::Write(path, offset, data)
WriteCmd(path, offset, data) ==
    [Cmd("Write", "", "", path, <<>>, "", offset) EXCEPT !.data = data]

\* Command::Clone(src_path, src_offset, len, dst_path, dst_offset)
CloneCmd(src_path, src_offset, len, dst_path, dst_offset) ==
    [Cmd("Clone", "", "", src_path, dst_path, "", src_offset) EXCEPT
        !.len = len, !.dst_off = dst_offset]

NoCommand == Cmd("", "", "", <<>>, <<>>, "", 0)

\* the result of receive: Ok(()) or one of the btrfs::Error variants, with
\* the number of commands consumed before it returned
Result(kind, uuid, command, error, at) ==
    [kind |-> kind, uuid |-> uuid, command |-> command, error |-> error, at |-> at]

\* Subvols::new, and no receive made yet
InitRecv ==
    /\ subvols = <<>>
    /\ recv = [stream |-> <<>>, pre |-> <<>>, result |-> Result("none", "", NoCommand, "", 0),
               used |-> 0]

InitFs ==
    /\ inodes = <<>>
    /\ refcounts = <<>>
    /\ paths = <<>>
    /\ res = [op |-> "none", a |-> <<>>, b |-> <<>>, arg |-> "", result |-> "Ok", n |-> 0,
              cmd |-> NoCommand, pre |-> NewFilesystem]

\* no pair of entries is under comparison
InitNoEntries ==
    ecmp = [l |-> <<>>, r |-> <<>>, op |-> "none", cmp |-> {}, mask |-> {}, ok |-> FALSE]

Init == InitFile /\ InitFs /\ InitCmp /\ InitRecv /\ InitNoEntries

NextWriter ==
    \/ OpenWriter /\ UNCHANGED <<fsVars, cmpVars, recvVars, entVars>>
    \/ DropWriter /\ UNCHANGED <<fsVars, cmpVars, recvVars, entVars>>
    \/ \E n \in 0..MaxPos : SeekStart(n) /\ UNCHANGED <<fsVars, cmpVars, recvVars, entVars>>
    \/ \E len \in 1..MaxWriteLen : Write(len) /\ UNCHANGED <<fsVars, cmpVars, recvVars, entVars>>
    \/ \E s \in 0..MaxPos, e \in 0..MaxPos : Clone(s, e) /\ UNCHANGED <<fsVars, cmpVars, recvVars, entVars>>

\* the offsets of the seeks from the current position and from the end
SeekOffsets == (0 - MaxSeek)..MaxSeek \cup {I64Min, I64Max}

NextSeek ==
    \/ OpenWriter /\ UNCHANGED <<fsVars, cmpVars, recvVars, entVars>>
    \/ \E n \in 0..MaxPos \cup {U64Max} : SeekStart(n) /\ UNCHANGED <<fsVars, cmpVars, recvVars, entVars>>
    \/ \E n \in SeekOffsets : SeekCurrent(n) /\ UNCHANGED <<fsVars, cmpVars, recvVars, entVars>>
    \/ \E n \in SeekOffsets : SeekEnd(n) /\ UNCHANGED <<fsVars, cmpVars, recvVars, entVars>>
    \/ \E len \in 1..MaxWriteLen :
          nwrites < MaxSeekWrites /\ Write(len) /\ UNCHANGED <<fsVars, cmpVars, recvVars, entVars>>

\* a File under the seeks and writes of its Writer
SpecSeek == Init /\ [][NextSeek]_vars

\* a File under its Writer and clone
SpecWriter == Init /\ [][NextWriter]_vars


NextFile ==
    \/ OpenWriter /\ UNCHANGED <<fsVars, cmpVars, recvVars, entVars>>
    \/ DropWriter /\ UNCHANGED <<fsVars, cmpVars, recvVars, entVars>>
    \/ \E n \in 0..MaxPos : SeekStart(n) /\ UNCHANGED <<fsVars, cmpVars, recvVars, entVars>>
    \/ \E len \in 1..MaxWriteLen : Write(len) /\ UNCHANGED <<fsVars, cmpVars, recvVars, entVars>>
    \/ \E n \in 0..MaxPos : Truncate(n) /\ UNCHANGED <<fsVars, cmpVars, recvVars, entVars>>

\* a File under its Writer and truncate
SpecFile == Init /\ [][NextFile]_vars


----------------------------------------------------------------------------
(* Paths *)

\* The paths the store is exercised with, as bytes: "", "a", "ax", "a/x".
\* They hold no redundant separator and no "." component, so two of them are
\* equal as Path exactly when they are equal as bytes, and the BTreeMap's
\* byte order agrees with the order its Path-keyed lookups search by.
PathUniverse == {<<>>, <<"a">>, <<"a", "x">>, <<"a", "/", "x">>}

RootDir == <<"/">>

\* the Normal components of a path: the runs of bytes between separators
RECURSIVE SplitComponents(_, _, _)
SplitComponents(p, cur, acc) ==
    IF p = <<>> THEN (IF cur = <<>> THEN acc ELSE Append(acc, cur))
    ELSE IF Head(p) = "/"
    THEN SplitComponents(Tail(p), <<>>, IF cur = <<>> THEN acc ELSE Append(acc, cur))
    ELSE SplitComponents(Tail(p), Append(cur, Head(p)), acc)

\* Path::components: RootDir for a leading separator, then the Normal components
Components(p) ==
    (IF p # <<>> /\ Head(p) = "/" THEN <<RootDir>> ELSE <<>>)
        \o SplitComponents(p, <<>>, <<>>)

IsPrefix(a, b) == Len(a) <= Len(b) /\ SubSeq(b, 1, Len(a)) = a

\* starts_with on the raw bytes instead of the components
starts_with_bytes(p, base) == IsPrefix(base, p)

\* Path::starts_with: component-wise prefix
starts_with(p, base) == IsPrefix(Components(base), Components(p))

\* PartialEq for Path: equal components
PathEq(p, q) == Components(p) = Components(q)

----------------------------------------------------------------------------
(* Entry and Metadata *)

Kinds == {"Directory", "File", "Special", "Symlink"}

DefaultMode == "0o444"
Modes == {"0o444", "0o644"}
Owners == {"0:0", "1:1"}
Times == {"epoch", "later"}

\* Metadata::default
DefaultMetadata == [mode |-> DefaultMode, owner |-> "0:0", xattrs |-> <<>>, times |-> "epoch"]

\* Directory::default, File::default, Special::new and Symlink::new as the
\* replay engine builds them; Symlink::new(_, None) sets mode 0o777.  An entry
\* carries the fields of every variant; those of the other variants stay at
\* the values given here.
NewEntry(kind) ==
    [kind |-> kind,
     metadata |-> IF kind = "Symlink"
                  THEN [DefaultMetadata EXCEPT !.mode = "0o777"]
                  ELSE DefaultMetadata,
     extents |-> EmptyFile,
     file_type |-> IF kind = "Special" THEN "S_IFIFO" ELSE "",
     rdev |-> 0,
     target |-> <<>>]

\* Special::new(file_type, rdev, metadata)
SpecialNew(file_type, rdev, metadata) ==
    [NewEntry("Special") EXCEPT !.file_type = file_type, !.rdev = rdev,
                                !.metadata = metadata]

\* Symlink::new(target, None)
SymlinkNew(target) == [NewEntry("Symlink") EXCEPT !.target = target]

\* File::builder().extents(..).build()
FileNew(f) == [NewEntry("File") EXCEPT !.extents = f]

is_directory(e) == e.kind = "Directory"

----------------------------------------------------------------------------
(* Filesystem: operators on [inodes, refcounts, paths], each returning the   *)
(* filesystem after the call and the call's result                           *)

Fs(i, r, p) == [inodes |-> i, refcounts |-> r, paths |-> p]

Done(fs, result) == [fs |-> fs, result |-> result]

\* BTreeMap::remove
MapRemove(m, k) == [x \in DOMAIN m \ {k} |-> m[x]]

\* BTreeMap<BytesPath, _>::get(&Path): the keys equal to the path, {} or {key}
PathsGet(ps, path) == {k \in DOMAIN ps : PathEq(k, path)}

\* Filesystem::insert without the insertion into the inode arena
insert_no_arena(fs, path, entry) ==
    LET key == Len(fs.inodes) + 1 IN
    Done(Fs(fs.inodes,
            Append(fs.refcounts, 1),
            MapInsert(fs.paths, path, key)), "Ok")

\* Filesystem::insert that releases the inode previously mapped at the path
insert_replacing(fs, path, entry) ==
    LET key == Len(fs.inodes) + 1
        old == PathsGet(fs.paths, path)
        rc == [k \in DOMAIN fs.refcounts |->
                  IF \E q \in old : fs.paths[q] = k
                  THEN Max2(fs.refcounts[k] - 1, 0) ELSE fs.refcounts[k]]
    IN Done(Fs(Append(fs.inodes, entry),
               Append(rc, 1),
               MapInsert(fs.paths, path, key)), "Ok")

\* Filesystem::insert
insert(fs, path, entry) ==
    LET key == Len(fs.inodes) + 1 IN
    Done(Fs(Append(fs.inodes, entry),
            Append(fs.refcounts, 1),
            MapInsert(fs.paths, path, key)), "Ok")

\* Filesystem::unlink that also removes the paths below the path
unlink_cascading(fs, path) ==
    LET hit == PathsGet(fs.paths, path) IN
    IF hit = {} THEN Done(fs, "NotFound")
    ELSE LET k == CHOOSE k \in hit : TRUE
             key == fs.paths[k]
             below == {q \in DOMAIN fs.paths : starts_with(q, k)}
             removed == [fs EXCEPT !.paths = [x \in DOMAIN fs.paths \ below |-> fs.paths[x]]]
         IN IF fs.refcounts[key] = 0 THEN Done(removed, "PanicOverflow")
            ELSE Done([removed EXCEPT !.refcounts[key] = @ - 1], "Ok")

\* Filesystem::unlink; the decrement of a usize that is 0 panics
unlink(fs, path) ==
    LET hit == PathsGet(fs.paths, path) IN
    IF hit = {} THEN Done(fs, "NotFound")
    ELSE LET k == CHOOSE k \in hit : TRUE
             key == fs.paths[k]
             removed == [fs EXCEPT !.paths = MapRemove(fs.paths, k)]
         IN IF fs.refcounts[key] = 0 THEN Done(removed, "PanicOverflow")
            ELSE Done([removed EXCEPT !.refcounts[key] = @ - 1], "Ok")

\* Filesystem::get / get_mut: {} (NotFound) or {inode key}
get(fs, path) ==
    {fs.paths[k] : k \in {k \in PathsGet(fs.paths, path) : fs.paths[k] \in DOMAIN fs.inodes}}

\* Filesystem::chmod
chmod(fs, path, mode) ==
    LET hit == get(fs, path) IN
    IF hit = {} THEN Done(fs, "NotFound")
    ELSE LET key == CHOOSE k \in hit : TRUE IN
         Done([fs EXCEPT !.inodes[key].metadata.mode = mode], "Ok")

\* Filesystem::chown
chown(fs, path, owner) ==
    LET hit == get(fs, path) IN
    IF hit = {} THEN Done(fs, "NotFound")
    ELSE LET key == CHOOSE k \in hit : TRUE IN
         Done([fs EXCEPT !.inodes[key].metadata.owner = owner], "Ok")

\* Filesystem::set_times
set_times(fs, path, times) ==
    LET hit == get(fs, path) IN
    IF hit = {} THEN Done(fs, "NotFound")
    ELSE LET key == CHOOSE k \in hit : TRUE IN
         Done([fs EXCEPT !.inodes[key].metadata.times = times], "Ok")

\* Filesystem::rename that leaves `from` in the map
rename_keeping_from(fs, from, to) ==
    LET hit == PathsGet(fs.paths, from) IN
    IF hit = {} THEN Done(fs, "NotFound")
    ELSE LET inode == fs.paths[CHOOSE k \in hit : TRUE] IN
         IF to \in DOMAIN fs.paths THEN Done(fs, "AlreadyExists")
         ELSE Done([fs EXCEPT !.paths = MapInsert(fs.paths, to, inode)], "Ok")

\* Filesystem::rename: `from` is removed from the map before `to` is looked at
rename(fs, from, to) ==
    LET hit == PathsGet(fs.paths, from) IN
    IF hit = {} THEN Done(fs, "NotFound")
    ELSE LET k == CHOOSE k \in hit : TRUE
             inode == fs.paths[k]
             removed == MapRemove(fs.paths, k)
         IN IF to \in DOMAIN removed
            THEN Done([fs EXCEPT !.paths = removed], "AlreadyExists")
            ELSE Done([fs EXCEPT !.paths = MapInsert(removed, to, inode)], "Ok")

\* Filesystem::link without the refcount increment
link_no_increment(fs, old, new) ==
    LET hit == PathsGet(fs.paths, old) IN
    IF hit = {} THEN Done(fs, "NotFound")
    ELSE LET key == fs.paths[CHOOSE k \in hit : TRUE] IN
         IF ~is_directory(fs.inodes[key]) THEN Done(fs, "IsADirectory")
         ELSE Done([fs EXCEPT !.paths = MapInsert(fs.paths, new, key)], "Ok")

\* Filesystem::link that gives the new path an inode of its own, a copy of the entry
link_copying(fs, old, new) ==
    LET hit == PathsGet(fs.paths, old) IN
    IF hit = {} THEN Done(fs, "NotFound")
    ELSE LET key == fs.paths[CHOOSE k \in hit : TRUE] IN
         IF ~is_directory(fs.inodes[key]) THEN Done(fs, "IsADirectory")
         ELSE insert(fs, new, fs.inodes[key])

\* Filesystem::link: the early return is taken when the entry is not a directory
link(fs, old, new) ==
    LET hit == PathsGet(fs.paths, old) IN
    IF hit = {} THEN Done(fs, "NotFound")
    ELSE LET key == fs.paths[CHOOSE k \in hit : TRUE] IN
         IF ~is_directory(fs.inodes[key]) THEN Done(fs, "IsADirectory")
         ELSE Done([fs EXCEPT !.refcounts[key] = @ + 1,
                              !.paths = MapInsert(fs.paths, new, key)], "Ok")

\* Filesystem::truncate through get_file_mut
fs_truncate(fs, path, len) ==
    LET hit == get(fs, path) IN
    IF hit = {} THEN Done(fs, "NotFound")
    ELSE LET key == CHOOSE k \in hit : TRUE IN
         IF fs.inodes[key].kind # "File" THEN Done(fs, "WrongEntryType")
         ELSE Done([fs EXCEPT !.inodes[key].extents = truncate(@, len)], "Ok")

\* get_file_mut, seek to the offset and Writer::write of the bytes
fs_write(fs, path, offset, data) ==
    LET hit == get(fs, path) IN
    IF hit = {} THEN Done(fs, "NotFound")
    ELSE LET key == CHOOSE k \in hit : TRUE IN
         IF fs.inodes[key].kind # "File" THEN Done(fs, "WrongEntryType")
         ELSE Done([fs EXCEPT !.inodes[key].extents = WriterWrite(@, offset, Owned(data))],
                   "Ok")

\* get_mut(path)?.metadata_mut().xattrs.insert(name, val)
set_xattr(fs, path, name, val) ==
    LET hit == get(fs, path) IN
    IF hit = {} THEN Done(fs, "NotFound")
    ELSE LET key == CHOOSE k \in hit : TRUE IN
         Done([fs EXCEPT !.inodes[key].metadata.xattrs = MapInsert(@, name, val)], "Ok")

\* Filesystem::rmdir: checks, and returns Ok without touching the maps
rmdir(fs, dir) ==
    LET hit == get(fs, dir) IN
    IF hit = {} THEN Done(fs, "NotFound")
    ELSE IF ~is_directory(fs.inodes[CHOOSE k \in hit : TRUE]) THEN Done(fs, "NotADirectory")
    ELSE IF \E p \in DOMAIN fs.paths : starts_with(p, dir) /\ ~PathEq(dir, p)
    THEN Done(fs, "DirectoryNotEmpty")
    ELSE Done(fs, "Ok")

----------------------------------------------------------------------------
(* Store operations *)

MaxOps == 3     \* store calls per behaviour
MaxLen == 1     \* truncate lengths are drawn from 0..MaxLen

TheFs == Fs(inodes, refcounts, paths)

\* a length as it is recorded with a call
LenName(n) == ToString(n)

\* one call: the filesystem becomes r.fs and the call is recorded
Call(op, a, b, arg, r) ==
    /\ res.n < MaxOps
    /\ inodes' = r.fs.inodes
    /\ refcounts' = r.fs.refcounts
    /\ paths' = r.fs.paths
    /\ res' = [op |-> op, a |-> a, b |-> b, arg |-> arg, result |-> r.result,
               n |-> res.n + 1, cmd |-> NoCommand, pre |-> NewFilesystem]

Insert(path, kind) == Call("insert", path, <<>>, kind, insert(TheFs, path, NewEntry(kind)))

Unlink(path) == Call("unlink", path, <<>>, "", unlink(TheFs, path))

Rename(from, to) == Call("rename", from, to, "", rename(TheFs, from, to))

Link(old, new) == Call("link", old, new, "", link(TheFs, old, new))

Rmdir(path) == Call("rmdir", path, <<>>, "", rmdir(TheFs, path))

Chmod(path, mode) == Call("chmod", path, <<>>, mode, chmod(TheFs, path, mode))

Chown(path, owner) == Call("chown", path, <<>>, owner, chown(TheFs, path, owner))

SetTimes(path, times) == Call("set_times", path, <<>>, times, set_times(TheFs, path, times))

FsTruncate(path, len) == Call("truncate", path, <<>>, LenName(len), fs_truncate(TheFs, path, len))

\* a write of one byte at offset 0 through get_file_mut
FsWrite(path) == Call("write", path, <<>>, "", fs_write(TheFs, path, 0, WriteData(res.n + 1, 1)))

\* an xattr set through get_mut
SetXattr(path) == Call("set_xattr", path, <<>>, "v", set_xattr(TheFs, path, "user.k", "v"))

NextFs ==
    \/ \E p \in PathUniverse, k \in Kinds : Insert(p, k) /\ UNCHANGED <<fileVars, cmpVars, recvVars, entVars>>
    \/ \E p \in PathUniverse : Unlink(p) /\ UNCHANGED <<fileVars, cmpVars, recvVars, entVars>>
    \/ \E p \in PathUniverse, q \in PathUniverse : Rename(p, q) /\ UNCHANGED <<fileVars, cmpVars, recvVars, entVars>>
    \/ \E p \in PathUniverse, q \in PathUniverse : Link(p, q) /\ UNCHANGED <<fileVars, cmpVars, recvVars, entVars>>
    \/ \E p \in PathUniverse : Rmdir(p) /\ UNCHANGED <<fileVars, cmpVars, recvVars, entVars>>
    \/ \E p \in PathUniverse, m \in Modes : Chmod(p, m) /\ UNCHANGED <<fileVars, cmpVars, recvVars, entVars>>
    \/ \E p \in PathUniverse, o \in Owners : Chown(p, o) /\ UNCHANGED <<fileVars, cmpVars, recvVars, entVars>>
    \/ \E p \in PathUniverse, t \in Times : SetTimes(p, t) /\ UNCHANGED <<fileVars, cmpVars, recvVars, entVars>>
    \/ \E p \in PathUniverse, n \in 0..MaxLen : FsTruncate(p, n) /\ UNCHANGED <<fileVars, cmpVars, recvVars, entVars>>
    \/ \E p \in PathUniverse : FsWrite(p) /\ UNCHANGED <<fileVars, cmpVars, recvVars, entVars>>
    \/ \E p \in PathUniverse : SetXattr(p) /\ UNCHANGED <<fileVars, cmpVars, recvVars, entVars>>

\* a Filesystem under its store operations
SpecFs == Init /\ [][NextFs]_vars

----------------------------------------------------------------------------
(* Field-masked comparison *)

MaxCmpOps == 3      \* inserts and clones made on the two compared filesystems

\* cmp::Fields: the bits of the mask, Fields::all().  RDEV is the bit
\* Special::cmp removes as Fields::RDEV.
AllFields == {"PATH", "TYPE", "DATA", "EXTENTS", "TIME", "XATTR", "MODE", "OWNER", "RDEV"}

\* Fields::all_entry_fields
all_entry_fields == AllFields \ {"PATH"}

\* ApproxEq for Metadata
metadata_cmp(m, o) ==
    AllFields \ ((IF m.mode # o.mode THEN {"MODE"} ELSE {})
                 \cup (IF m.owner # o.owner THEN {"OWNER"} ELSE {})
                 \cup (IF m.xattrs # o.xattrs THEN {"XATTR"} ELSE {})
                 \cup (IF m.times # o.times THEN {"TIME"} ELSE {}))

\* ApproxEq for Directory
directory_cmp(s, o) == metadata_cmp(s.metadata, o.metadata)

\* ApproxEq for File: EXTENTS is structural equality of the extent maps, DATA
\* equality of the materialised bytes
file_cmp(s, o) ==
    metadata_cmp(s.metadata, o.metadata)
        \ ((IF s.extents # o.extents THEN {"EXTENTS"} ELSE {})
           \cup (IF to_bytes(s.extents).bytes # to_bytes(o.extents).bytes
                 THEN {"DATA"} ELSE {}))

\* ApproxEq for Symlink
symlink_cmp(s, o) ==
    metadata_cmp(s.metadata, o.metadata)
        \ (IF ~PathEq(s.target, o.target) THEN {"DATA"} ELSE {})

\* ApproxEq for Special
special_cmp(s, o) ==
    metadata_cmp(s.metadata, o.metadata)
        \ ((IF s.file_type # o.file_type THEN {"TYPE"} ELSE {})
           \cup (IF s.rdev # o.rdev THEN {"RDEV"} ELSE {}))

\* ApproxEq for Entry that returns no field at all for entries of two variants
entry_cmp_empty_on_mismatch(s, o) ==
    LET f == metadata_cmp(s.metadata, o.metadata) IN
    IF s.kind # o.kind THEN {}
    ELSE IF s.kind = "Directory" THEN f \cap directory_cmp(s, o)
    ELSE IF s.kind = "File" THEN f \cap file_cmp(s, o)
    ELSE IF s.kind = "Special" THEN metadata_cmp(s.metadata, o.metadata)
    ELSE f \cap symlink_cmp(s, o)

\* ApproxEq for Entry: the Special/Special arm compares the metadata alone
entry_cmp(s, o) ==
    LET f == metadata_cmp(s.metadata, o.metadata) IN
    IF s.kind # o.kind THEN f \ {"TYPE"}
    ELSE IF s.kind = "Directory" THEN f \cap directory_cmp(s, o)
    ELSE IF s.kind = "File" THEN f \cap file_cmp(s, o)
    ELSE IF s.kind = "Special" THEN metadata_cmp(s.metadata, o.metadata)
    ELSE f \cap symlink_cmp(s, o)

\* derive(PartialEq) for Entry: same variant, and every field of it equal
entry_eq(s, o) ==
    /\ s.kind = o.kind
    /\ s.metadata = o.metadata
    /\ s.kind = "File" => s.extents = o.extents
    /\ s.kind = "Special" => (s.file_type = o.file_type /\ s.rdev = o.rdev)
    /\ s.kind = "Symlink" => PathEq(s.target, o.target)

\* ApproxEq::cmp for Filesystem: one pass over the paths of self
RECURSIVE CmpPaths(_, _, _, _)
CmpPaths(self, o, todo, f) ==
    IF todo = {} THEN f
    ELSE LET path == CHOOSE p \in todo : TRUE
             entry == self.inodes[self.paths[path]]
             hit == get(o, path)
             g == IF hit = {} THEN f \ all_entry_fields
                  ELSE f \cap entry_cmp(entry, o.inodes[CHOOSE k \in hit : TRUE])
         IN CmpPaths(self, o, todo \ {path}, g)

\* the default ApproxEq::cmp of the trait: all fields when ==, none otherwise
fs_cmp_strict(self, o) ==
    IF /\ DOMAIN self.paths = DOMAIN o.paths
       /\ \A p \in DOMAIN self.paths :
             entry_eq(self.inodes[self.paths[p]], o.inodes[o.paths[p]])
    THEN AllFields ELSE {}

\* ApproxEq::cmp for Filesystem without the comparison of the two path sets
fs_cmp_keeping_path(self, o) == CmpPaths(self, o, DOMAIN self.paths, AllFields)

fs_cmp(self, o) ==
    CmpPaths(self, o, DOMAIN self.paths,
             IF DOMAIN self.paths # DOMAIN o.paths THEN AllFields \ {"PATH"} ELSE AllFields)

\* ApproxEq::approx_eq: the mask returned by cmp contains the asked fields
approx_eq(self, o, fields) == fields \subseteq fs_cmp(self, o)

\* PartialEq for Filesystem without the check of the unvisited paths of other
fs_eq_one_sided(self, o) ==
    \A path \in DOMAIN self.paths :
        LET hit == get(o, path) IN
        /\ hit # {}
        /\ entry_eq(self.inodes[self.paths[path]], o.inodes[CHOOSE k \in hit : TRUE])

\* PartialEq for Filesystem: every path of self is in other with an equal
\* entry, and no path of other is left unvisited
fs_eq(self, o) ==
    /\ \A path \in DOMAIN self.paths :
          LET hit == get(o, path) IN
          /\ hit # {}
          /\ entry_eq(self.inodes[self.paths[path]], o.inodes[CHOOSE k \in hit : TRUE])
    /\ \A q \in DOMAIN o.paths : \E path \in DOMAIN self.paths : PathEq(path, q)

\* ApproxEq::approx_eq for Entry
entry_approx_eq(s, o, fields) == fields \subseteq entry_cmp(s, o)

\* Diff::Removed, Diff::Added, Diff::Changed
Removed(e) == [kind |-> "Removed", entries |-> <<e>>]

Added(e) == [kind |-> "Added", entries |-> <<e>>]

DiffChanged(l, r) == [kind |-> "Changed", entries |-> <<l, r>>]

\* the first loop of FilesystemDiff::diff, over the entries of left: Removed
\* and Changed
DiffLeftLoop(left, right, fields) ==
    LET hit(p) == get(right, p)
        recorded == {p \in DOMAIN left.paths :
                        \/ hit(p) = {}
                        \/ ~entry_approx_eq(left.inodes[left.paths[p]],
                                            right.inodes[CHOOSE k \in hit(p) : TRUE], fields)}
    IN [p \in recorded |->
           IF hit(p) = {} THEN Removed(left.inodes[left.paths[p]])
           ELSE DiffChanged(left.inodes[left.paths[p]],
                            right.inodes[CHOOSE k \in hit(p) : TRUE])]

\* FilesystemDiff::diff without its second loop, the one that records Added
fs_diff_left_only(left, right, fields) == DiffLeftLoop(left, right, fields)

\* FilesystemDiff::diff: the entry_diffs map, path -> Diff
fs_diff(left, right, fields) ==
    LET first == DiffLeftLoop(left, right, fields)
        added == {p \in DOMAIN right.paths : get(left, p) = {}}
    IN [p \in DOMAIN first \cup added |->
           IF p \in added THEN Added(right.inodes[right.paths[p]]) ELSE first[p]]

\* the paths and the entries the compared filesystems are built from
CmpPathUniverse == {<<>>, <<"a">>}

SampleEntries ==
    {NewEntry("Directory"),
     NewEntry("File"),
     FileNew(MapInsert(EmptyFile, 0, Owned(WriteData(1, 1)))),
     SpecialNew("S_IFIFO", 0, DefaultMetadata),
     SpecialNew("S_IFCHR", 0, DefaultMetadata),
     SpecialNew("S_IFIFO", 1, DefaultMetadata),
     SymlinkNew(<<"a">>),
     SymlinkNew(<<"a", "x">>)}

\* the filesystems changed: the recorded comparison is void
Changed == [NotCompared EXCEPT !.n = cmpres.n + 1]

\* Filesystem::insert on the left filesystem
InsertLeft(path, entry) ==
    /\ cmpres.n < MaxCmpOps
    /\ LET r == insert(TheFs, path, entry) IN
        /\ inodes' = r.fs.inodes
        /\ refcounts' = r.fs.refcounts
        /\ paths' = r.fs.paths
    /\ cmpres' = Changed
    /\ UNCHANGED <<res, other>>

\* Filesystem::insert on the right filesystem
InsertRight(path, entry) ==
    /\ cmpres.n < MaxCmpOps
    /\ other' = insert(other, path, entry).fs
    /\ cmpres' = Changed
    /\ UNCHANGED fsVars

\* derive(Clone) for Filesystem: the right filesystem becomes a copy of the left
CloneLeft ==
    /\ cmpres.n < MaxCmpOps
    /\ other' = TheFs
    /\ cmpres' = Changed
    /\ UNCHANGED fsVars

\* Filesystem::unlink on the left filesystem
UnlinkLeft(path) ==
    /\ cmpres.n < MaxCmpOps
    /\ LET r == unlink(TheFs, path) IN
        /\ r.result = "Ok"
        /\ inodes' = r.fs.inodes
        /\ refcounts' = r.fs.refcounts
        /\ paths' = r.fs.paths
    /\ cmpres' = Changed
    /\ UNCHANGED <<res, other>>

\* cmp both ways round, and ==
Compare ==
    /\ ~cmpres.done
    /\ ~cmpres.diffed
    /\ cmpres' = [NotCompared EXCEPT
                      !.done = TRUE,
                      !.ab = fs_cmp(TheFs, other),
                      !.ba = fs_cmp(other, TheFs),
                      !.eq = fs_eq(TheFs, other),
                      !.n = cmpres.n]
    /\ UNCHANGED <<fsVars, other>>

\* the field masks diffs are asked for
SampleMasks == {AllFields, {"TYPE"}}

\* FilesystemDiff::diff(left, right, fields) of the two filesystems
Diff(fields) ==
    /\ ~cmpres.done
    /\ ~cmpres.diffed
    /\ cmpres' = [NotCompared EXCEPT
                      !.diffed = TRUE,
                      !.fields = fields,
                      !.diff = fs_diff(TheFs, other, fields),
                      !.n = cmpres.n]
    /\ UNCHANGED <<fsVars, other>>

NextCmp ==
    \/ \E p \in CmpPathUniverse, e \in SampleEntries : InsertLeft(p, e) /\ UNCHANGED <<fileVars, recvVars, entVars>>
    \/ \E p \in CmpPathUniverse, e \in SampleEntries : InsertRight(p, e) /\ UNCHANGED <<fileVars, recvVars, entVars>>
    \/ CloneLeft /\ UNCHANGED <<fileVars, recvVars, entVars>>
    \/ \E p \in CmpPathUniverse : UnlinkLeft(p) /\ UNCHANGED <<fileVars, recvVars, entVars>>
    \/ Compare /\ UNCHANGED <<fileVars, recvVars, entVars>>
    \/ \E f \in SampleMasks : Diff(f) /\ UNCHANGED <<fileVars, recvVars, entVars>>

\* two Filesystems built by inserts and compared
SpecCmp == Init /\ [][NextCmp]_vars


-----------------------------------------------------------------------------
(* Entry: cmp and approx_eq of two entries                                   *)

\* the metadata an entry can carry: chmod, chown and set_times applied or not
MetadataUniverse ==
    {[DefaultMetadata EXCEPT !.mode = m, !.owner = o, !.times = t] :
        m \in Modes, o \in Owners, t \in Times}

\* two bytes in one write; the same two bytes in two appending writes; two
\* other bytes in one write
OneWrite == WriterWrite(EmptyFile, 0, Owned(WriteData(1, 2)))

TwoWrites ==
    WriterWrite(WriterWrite(EmptyFile, 0, Owned(Slice(WriteData(1, 2), 0, 1))),
                1, Owned(Slice(WriteData(1, 2), 1, 2)))

OtherWrite == WriterWrite(EmptyFile, 0, Owned(WriteData(2, 2)))

FileUniverse == {EmptyFile, OneWrite, TwoWrites, OtherWrite}

EntryUniverse ==
    UNION {{[NewEntry("Directory") EXCEPT !.metadata = md]}
           \cup {[FileNew(f) EXCEPT !.metadata = md] : f \in FileUniverse}
           \cup {SpecialNew(t, d, md) : t \in {"S_IFIFO", "S_IFCHR"}, d \in {0, 1}}
           \cup {[SymlinkNew(t) EXCEPT !.metadata = md] : t \in {<<"a">>, <<"a", "x">>}}
           : md \in MetadataUniverse}

\* the masks approx_eq is asked for
EntryMasks == {AllFields, AllFields \ {"EXTENTS"}, {"RDEV"}}

InitEntries ==
    /\ InitFile /\ InitFs /\ InitCmp /\ InitRecv
    /\ ecmp \in {[l |-> a, r |-> b, op |-> "none", cmp |-> {}, mask |-> {}, ok |-> FALSE] :
                    a \in EntryUniverse, b \in EntryUniverse}

\* ApproxEq::cmp(l, r), and l == r
EntryCmp ==
    /\ ecmp.op = "none"
    /\ ecmp' = [ecmp EXCEPT !.op = "cmp",
                            !.cmp = entry_cmp(ecmp.l, ecmp.r),
                            !.ok = entry_eq(ecmp.l, ecmp.r)]

\* ApproxEq::approx_eq(l, r, mask)
EntryApproxEq(mask) ==
    /\ ecmp.op = "none"
    /\ ecmp' = [ecmp EXCEPT !.op = "approx_eq",
                            !.mask = mask,
                            !.cmp = entry_cmp(ecmp.l, ecmp.r),
                            !.ok = entry_approx_eq(ecmp.l, ecmp.r, mask)]

NextEntryCmp ==
    \/ EntryCmp /\ UNCHANGED <<fileVars, fsVars, cmpVars, recvVars>>
    \/ \E mask \in EntryMasks : EntryApproxEq(mask) /\ UNCHANGED <<fileVars, fsVars, cmpVars, recvVars>>

\* two entries under cmp and approx_eq
SpecEntryCmp == InitEntries /\ [][NextEntryCmp]_vars

----------------------------------------------------------------------------
(* Extent: split_at of one extent                                          *)

MaxSplitLen == 4    \* the extents split hold up to MaxSplitLen bytes
MaxSplitSrc == 2    \* a Cloned extent starts at 0..MaxSplitSrc in its source file

\* the extents handed to split_at: Owned over borrowed bytes and over a Vec,
\* and Cloned as File::clone builds them from a non-empty extent, src_range =
\* (start, start + len)
SplitUniverse ==
    {Owned(WriteData(1, n)) : n \in 0..MaxSplitLen}
    \cup {OwnedVec(WriteData(1, n)) : n \in 0..MaxSplitLen}
    \cup {Cloned(<<a, a + n>>, WriteData(1, n)) : a \in 0..MaxSplitSrc, n \in 1..MaxSplitLen}

\* the extent is held at key 0 of the file
InitSplit ==
    /\ InitFs /\ InitCmp /\ InitRecv /\ InitNoEntries
    /\ extents \in {MapInsert(EmptyFile, 0, e) : e \in SplitUniverse}
    /\ writer = [open |-> FALSE, pos |-> 0]
    /\ nwrites = 0
    /\ flat = <<>>
    /\ gapless = TRUE
    /\ last = NoOp

\* Extent::split_at(pos) on the extent: it is cut in place, the right part is
\* returned
SplitAt(pos) ==
    /\ pos <= ExtentLen(extents[0])
    /\ LET sp == split_at(extents[0], pos) IN
        /\ extents' = MapInsert(EmptyFile, 0, sp.left)
        /\ last' = Did("split_at", pos, 0, extents, <<sp.right>>)
    /\ UNCHANGED <<writer, nwrites, flat, gapless>>

NextSplit ==
    \E pos \in 0..MaxSplitLen : SplitAt(pos) /\ UNCHANGED <<fsVars, cmpVars, recvVars, entVars>>

\* one extent split again and again
SpecSplit == InitSplit /\ [][NextSplit]_vars

----------------------------------------------------------------------------
(* Sendstream replay *)

MaxApply == 4       \* commands applied to the filesystem of one subvol
MaxApplyLen == 2    \* bytes of a Write command, and the greatest length of a Clone
MaxCmds == 3        \* commands received per behaviour, over all sendstreams

Uuids == {"U1", "U2"}

\* Option<Uuid>::None
None == "None"

\* Subvol::new followed by fs.insert("", Directory::default())
FreshSubvol ==
    [parent_uuid |-> None, fs |-> insert(NewFilesystem, <<>>, NewEntry("Directory")).fs]

IsStart(c) == c.cmd \in {"Subvol", "Snapshot"}

\* the writes of the Clone arm: each extent goes in where the last one ended
RECURSIVE WriteAll(_, _, _)
WriteAll(f, pos, exts) ==
    IF exts = <<>> THEN f
    ELSE WriteAll(WriterWrite(f, pos, Head(exts)), pos + ExtentLen(Head(exts)), Tail(exts))

\* the Clone arm of apply_cmd: get_file, File::clone of the source range,
\* get_file_mut, seek to dst_offset and one Writer::write per cloned extent
fs_clone(fs, src_path, src_offset, len, dst_path, dst_offset) ==
    LET src == get(fs, src_path)
        dst == get(fs, dst_path)
    IN IF src = {} THEN Done(fs, "NotFound")
       ELSE IF fs.inodes[CHOOSE k \in src : TRUE].kind # "File" THEN Done(fs, "WrongEntryType")
       ELSE IF dst = {} THEN Done(fs, "NotFound")
       ELSE IF fs.inodes[CHOOSE k \in dst : TRUE].kind # "File" THEN Done(fs, "WrongEntryType")
       ELSE LET skey == CHOOSE k \in src : TRUE
                dkey == CHOOSE k \in dst : TRUE
                cloned == clone_range(fs.inodes[skey].extents, src_offset, src_offset + len)
            IN Done([fs EXCEPT !.inodes[dkey].extents = WriteAll(@, dst_offset, cloned)], "Ok")

\* Subvols::apply_cmd on the filesystem of the subvol in progress: the
\* filesystem after the command, and Ok, the store error or InvariantViolated
apply_cmd(fs, c) ==
    CASE c.cmd = "Chmod" -> chmod(fs, c.path, c.mode)
      [] c.cmd = "Chown" -> chown(fs, c.path, c.mode)
      [] c.cmd = "End" -> Done(fs, "Ok")
      [] c.cmd = "Link" -> link(fs, c.path, c.to)
      [] c.cmd = "Mkdir" -> insert(fs, c.path, NewEntry("Directory"))
      [] c.cmd = "Mkfile" -> insert(fs, c.path, NewEntry("File"))
      [] c.cmd = "Mknod" -> insert(fs, c.path, SpecialNew(c.mode, c.n, DefaultMetadata))
      [] c.cmd = "Rename" -> rename(fs, c.path, c.to)
      [] c.cmd = "Rmdir" -> rmdir(fs, c.path)
      [] c.cmd = "SetXattr" -> set_xattr(fs, c.path, c.mode, c.data)
      [] c.cmd = "Snapshot" -> Done(fs, "InvariantViolated")
      [] c.cmd = "Subvol" -> Done(fs, "InvariantViolated")
      [] c.cmd = "Symlink" -> insert(fs, c.path, SymlinkNew(c.to))
      [] c.cmd = "Truncate" -> fs_truncate(fs, c.path, c.n)
      [] c.cmd = "Unlink" -> unlink(fs, c.path)
      [] c.cmd = "UpdateExtent" -> Done(fs, "InvariantViolated")
      [] c.cmd = "Utimes" -> set_times(fs, c.path, c.mode)
      [] c.cmd = "Clone" -> fs_clone(fs, c.path, c.n, c.len, c.to, c.dst_off)
      [] OTHER -> fs_write(fs, c.path, c.n, c.data)

\* the start of a subvol that begins a fresh one when the parent is missing
Begin_fresh_on_missing(map, c) ==
    IF c.cmd = "Subvol" THEN {FreshSubvol}
    ELSE IF c.clone_uuid \in DOMAIN map
    THEN {[map[c.clone_uuid] EXCEPT !.parent_uuid = c.clone_uuid]}
    ELSE {FreshSubvol}

\* the start of a subvol that copies the parent and leaves parent_uuid as copied
Begin_no_parent(map, c) ==
    IF c.cmd = "Subvol" THEN {FreshSubvol}
    ELSE IF c.clone_uuid \in DOMAIN map
    THEN {map[c.clone_uuid]}
    ELSE {}

\* the start of a subvol that records the parent of a Snapshot without
\* looking it up: a fresh subvol when it is not in the map
Begin_unchecked(map, c) ==
    IF c.cmd = "Subvol" THEN {FreshSubvol}
    ELSE IF c.clone_uuid \in DOMAIN map
    THEN {[map[c.clone_uuid] EXCEPT !.parent_uuid = c.clone_uuid]}
    ELSE {[FreshSubvol EXCEPT !.parent_uuid = c.clone_uuid]}

\* the start of a subvol: {} when the parent of a Snapshot is not in the map,
\* else {the new subvol in progress}
Begin(map, c) ==
    IF c.cmd = "Subvol" THEN {FreshSubvol}
    ELSE IF c.clone_uuid \in DOMAIN map
    THEN {[map[c.clone_uuid] EXCEPT !.parent_uuid = c.clone_uuid]}
    ELSE {}

\* the loop of receive without the commit at a mid-stream start command
RECURSIVE ReceiveLoop_no_commit(_, _, _, _, _)
ReceiveLoop_no_commit(map, subvol_uuid, subvol, stream, i) ==
    IF i > Len(stream)
    THEN [map |-> MapInsert(map, subvol_uuid, subvol),
          result |-> Result("Ok", "", NoCommand, "", i - 1)]
    ELSE LET cmd == stream[i] IN
         IF IsStart(cmd)
         THEN LET begun == Begin(map, cmd) IN
              IF begun = {}
              THEN [map |-> map,
                    result |-> Result("MissingParent", cmd.clone_uuid, NoCommand, "", i - 1)]
              ELSE ReceiveLoop_no_commit(map, cmd.uuid, CHOOSE b \in begun : TRUE, stream, i + 1)
         ELSE LET r == apply_cmd(subvol.fs, cmd) IN
              IF r.result = "Ok"
              THEN ReceiveLoop_no_commit(map, subvol_uuid, [subvol EXCEPT !.fs = r.fs],
                                         stream, i + 1)
              ELSE [map |-> map, result |-> Result("Apply", "", cmd, r.result, i - 1)]

\* the loop of receive that commits the subvol in progress when a command fails
RECURSIVE ReceiveLoop_commit_on_error(_, _, _, _, _)
ReceiveLoop_commit_on_error(map, subvol_uuid, subvol, stream, i) ==
    IF i > Len(stream)
    THEN [map |-> MapInsert(map, subvol_uuid, subvol),
          result |-> Result("Ok", "", NoCommand, "", i - 1)]
    ELSE LET cmd == stream[i] IN
         IF IsStart(cmd)
         THEN LET committed == MapInsert(map, subvol_uuid, subvol)
                  begun == Begin(committed, cmd)
              IN IF begun = {}
                 THEN [map |-> committed,
                       result |-> Result("MissingParent", cmd.clone_uuid, NoCommand, "", i - 1)]
                 ELSE ReceiveLoop_commit_on_error(committed, cmd.uuid, CHOOSE b \in begun : TRUE,
                                                  stream, i + 1)
         ELSE LET r == apply_cmd(subvol.fs, cmd) IN
              IF r.result = "Ok"
              THEN ReceiveLoop_commit_on_error(map, subvol_uuid, [subvol EXCEPT !.fs = r.fs],
                                               stream, i + 1)
              ELSE [map |-> MapInsert(map, subvol_uuid, subvol),
                    result |-> Result("Apply", "", cmd, r.result, i - 1)]

\* the loop of receive over the commands after the first, with the subvol in
\* progress and its uuid; i is the place of the next command in the stream
RECURSIVE ReceiveLoop(_, _, _, _, _)

\* the loop after apply_cmd returned r for command i: on with the next
\* command, or the error of the command, the map left as it was
Applied(map, subvol_uuid, subvol, stream, i, r) ==
    IF r.result = "Ok"
    THEN ReceiveLoop(map, subvol_uuid, [subvol EXCEPT !.fs = r.fs], stream, i + 1)
    ELSE IF r.result = "InvariantViolated"
    THEN [map |-> map, result |-> Result("InvariantViolated", "", NoCommand, "", i - 1)]
    ELSE IF r.result = "PanicOverflow"
    THEN [map |-> map, result |-> Result("Panic", "", NoCommand, "", i - 1)]
    ELSE [map |-> map, result |-> Result("Apply", "", stream[i], r.result, i - 1)]

ReceiveLoop(map, subvol_uuid, subvol, stream, i) ==
    IF i > Len(stream)
    THEN [map |-> MapInsert(map, subvol_uuid, subvol),
          result |-> Result("Ok", "", NoCommand, "", i - 1)]
    ELSE LET cmd == stream[i] IN
         IF IsStart(cmd)
         THEN LET committed == MapInsert(map, subvol_uuid, subvol)
                  begun == Begin(committed, cmd)
              IN IF begun = {}
                 THEN [map |-> committed,
                       result |-> Result("MissingParent", cmd.clone_uuid, NoCommand, "", i - 1)]
                 ELSE ReceiveLoop(committed, cmd.uuid, CHOOSE b \in begun : TRUE, stream, i + 1)
         ELSE Applied(map, subvol_uuid, subvol, stream, i, apply_cmd(subvol.fs, cmd))

\* receive that begins a fresh subvol when the first command is no start command
receive_lenient(map, stream) ==
    LET first == stream[1] IN
    IF ~IsStart(first)
    THEN ReceiveLoop(map, "U1", FreshSubvol, stream, 1)
    ELSE LET begun == Begin(map, first) IN
         IF begun = {}
         THEN [map |-> map,
               result |-> Result("MissingParent", first.clone_uuid, NoCommand, "", 0)]
         ELSE ReceiveLoop(map, first.uuid, CHOOSE b \in begun : TRUE, stream, 2)

\* receive whose snapshot shares its filesystem with the parent: what the
\* stream does to the snapshot shows in the parent
receive_shared(map, stream) ==
    LET first == stream[1] IN
    IF ~IsStart(first)
    THEN [map |-> map, result |-> Result("InvariantViolated", "", NoCommand, "", 0)]
    ELSE LET begun == Begin(map, first) IN
         IF begun = {}
         THEN [map |-> map,
               result |-> Result("MissingParent", first.clone_uuid, NoCommand, "", 0)]
         ELSE LET r == ReceiveLoop(map, first.uuid, CHOOSE b \in begun : TRUE, stream, 2) IN
              IF first.cmd = "Snapshot" /\ first.uuid \in DOMAIN r.map
              THEN [r EXCEPT !.map = MapInsert(r.map, first.clone_uuid,
                                               [map[first.clone_uuid] EXCEPT
                                                   !.fs = r.map[first.uuid].fs])]
              ELSE r

\* Subvols::receive of a sendstream of at least one command: the map after
\* the call and the call's result
receive(map, stream) ==
    LET first == stream[1] IN
    IF ~IsStart(first)
    THEN [map |-> map, result |-> Result("InvariantViolated", "", NoCommand, "", 0)]
    ELSE LET begun == Begin(map, first) IN
         IF begun = {}
         THEN [map |-> map,
               result |-> Result("MissingParent", first.clone_uuid, NoCommand, "", 0)]
         ELSE ReceiveLoop(map, first.uuid, CHOOSE b \in begun : TRUE, stream, 2)

\* the commands the sendstreams are made of
StartCommands ==
    {Cmd("Subvol", u, "", <<>>, <<>>, "", 0) : u \in Uuids}
        \cup {Cmd("Snapshot", u, c, <<>>, <<>>, "", 0) : u \in Uuids, c \in Uuids}

OtherCommands ==
    {Cmd("Mkfile", "", "", <<"a">>, <<>>, "", 0),
     Cmd("Unlink", "", "", <<"a">>, <<>>, "", 0),
     Cmd("Chmod", "", "", <<>>, <<>>, "0o644", 0),
     Cmd("Chmod", "", "", <<"a">>, <<>>, "0o644", 0),
     Cmd("Rename", "", "", <<"a">>, <<"a", "x">>, "", 0),
     WriteCmd(<<"a">>, 0, WriteData(1, 1)),
     Cmd("Truncate", "", "", <<"a">>, <<>>, "", 1),
     Cmd("UpdateExtent", "", "", <<>>, <<>>, "", 0)}

Commands == StartCommands \cup OtherCommands

\* the sendstreams of n commands
Streams(n) == [1..n -> Commands]

\* Subvols::receive of one sendstream
Receive(stream) ==
    /\ recv.used + Len(stream) <= MaxCmds
    /\ \E r \in {receive(subvols, stream)} :
        /\ subvols' = r.map
        /\ recv' = [stream |-> stream, pre |-> subvols, result |-> r.result,
                    used |-> recv.used + Len(stream)]

NextRecv ==
    \E n \in 1..MaxCmds : \E stream \in Streams(n) :
        Receive(stream) /\ UNCHANGED <<fileVars, fsVars, cmpVars, entVars>>

\* a Subvols map under receive
SpecRecv == Init /\ [][NextRecv]_vars

-----------------------------------------------------------------------------
(* apply_cmd: the commands of one subvol applied to its filesystem           *)

ApplyPaths == {<<"a">>, <<"b">>}

\* the commands applied: files are made, written and cloned
ApplyCommands(n) ==
    {Cmd("Mkfile", "", "", p, <<>>, "", 0) : p \in ApplyPaths}
        \cup {WriteCmd(p, off, WriteData(n, MaxApplyLen)) : p \in ApplyPaths, off \in 0..1}
        \cup {CloneCmd(src, src_off, len, dst, dst_off) :
                 src \in ApplyPaths, dst \in ApplyPaths,
                 src_off \in 0..1, len \in 1..MaxApplyLen, dst_off \in 0..1}

\* the filesystem of a subvol begun by a Subvol command
InitApply ==
    /\ InitFile /\ InitCmp /\ InitRecv /\ InitNoEntries
    /\ inodes = FreshSubvol.fs.inodes
    /\ refcounts = FreshSubvol.fs.refcounts
    /\ paths = FreshSubvol.fs.paths
    /\ res = [op |-> "none", a |-> <<>>, b |-> <<>>, arg |-> "", result |-> "Ok", n |-> 0,
              cmd |-> NoCommand, pre |-> NewFilesystem]

\* apply_cmd of one command; a command that fails ends the stream
Apply(c) ==
    /\ res.n < MaxApply
    /\ res.result = "Ok"
    /\ LET r == apply_cmd(TheFs, c) IN
        /\ inodes' = r.fs.inodes
        /\ refcounts' = r.fs.refcounts
        /\ paths' = r.fs.paths
        /\ res' = [op |-> "apply", a |-> c.path, b |-> c.to, arg |-> c.cmd,
                   result |-> r.result, n |-> res.n + 1, cmd |-> c, pre |-> TheFs]

NextApply ==
    \E c \in ApplyCommands(res.n + 1) :
        Apply(c) /\ UNCHANGED <<fileVars, cmpVars, recvVars, entVars>>

\* the filesystem of one subvol under the commands of its stream
SpecApply == InitApply /\ [][NextApply]_vars

----------------------------------------------------------------------------
(* Claims about the file content model *)

\* no two extents overlap: s1 < s2 implies s1 + len(extent at s1) <= s2
NonOverlapping(f) ==
    \A s1 \in DOMAIN f : \A s2 \in DOMAIN f :
        s1 < s2 => s1 + ExtentLen(f[s1]) <= s2

\* every byte offset below len(f) lies inside some extent
NoGap(f) ==
    \A p \in 0..(FileLen(f) - 1) :
        \E s \in DOMAIN f : s <= p /\ p < s + ExtentLen(f[s])

\* the extents tile [0, len): contiguous from offset 0, no gap and no overlap
Contiguous(f) == NoGap(f) /\ NonOverlapping(f)

\* C1: after seeks and writes none of which started past the end of the file,
\* to_bytes equals the flat buffer the same seeks and writes produce.
C1_WritesMatchFlatBuffer ==
    gapless => to_bytes(extents) = [panic |-> FALSE, bytes |-> flat]

\* C2: after any seeks and writes the extent map is non-overlapping.
C2_ExtentsNonOverlapping == NonOverlapping(extents)

\* C3: for a contiguous file and a range within it, the data of the extents
\* clone returns, concatenated, is the file's bytes in that range.
C3_CloneReturnsRange ==
    (last.op = "clone" /\ Contiguous(extents))
        => Concat(last.out) = Slice(to_bytes(extents).bytes, last.a, last.b)

TruncateKeepsPrefix ==
    last.a <= FileLen(last.pre)
        => to_bytes(extents) =
             [panic |-> FALSE, bytes |-> Slice(to_bytes(last.pre).bytes, 0, last.a)]

----------------------------------------------------------------------------
(* Claims about the filesystem store *)

\* the step is a call of `op`
Called(op) == res'.n = res.n + 1 /\ res'.op = op

Resolves(ps, p) == p \in DOMAIN ps

PathsTo(ps, k) == {p \in DOMAIN ps : ps[p] = k}

\* C5: rename(from, to) with both paths present fails with AlreadyExists and
\* changes nothing: both paths resolve as before, the set of paths is the same.
C5_RenameOntoExistingChangesNothing ==
    [][(/\ Called("rename")
        /\ res'.a # res'.b
        /\ Resolves(paths, res'.a)
        /\ Resolves(paths, res'.b))
       => (/\ res'.result = "AlreadyExists"
           /\ DOMAIN paths' = DOMAIN paths
           /\ paths'[res'.a] = paths[res'.a]
           /\ paths'[res'.b] = paths[res'.b])]_vars

\* C6: link(old, new) with old present fails with IsADirectory exactly when
\* old is a Directory; otherwise it succeeds, adds one to the inode's refcount
\* and makes new resolve to the inode of old.
C6_LinkRefusesOnlyDirectories ==
    [][(Called("link") /\ Resolves(paths, res'.a))
       => LET key == paths[res'.a] IN
          /\ res'.result = "IsADirectory" <=> inodes[key].kind = "Directory"
          /\ inodes[key].kind # "Directory"
                => (/\ res'.result = "Ok"
                    /\ refcounts'[key] = refcounts[key] + 1
                    /\ Resolves(paths', res'.b)
                    /\ paths'[res'.b] = key)]_vars

\* C7: for a non-directory at a and no entry at b, link(a, b) then unlink(a)
\* both succeed; afterwards b holds the entry a held, a is NotFound and the
\* inode's refcount is what it was before the link.
C7_LinkThenUnlinkKeepsInode ==
    [][(/\ Called("link")
        /\ Resolves(paths, res'.a)
        /\ inodes[paths[res'.a]].kind # "Directory"
        /\ ~Resolves(paths, res'.b))
       => LET key == paths[res'.a]
              after == unlink(Fs(inodes', refcounts', paths'), res'.a)
          IN /\ res'.result = "Ok"
             /\ after.result = "Ok"
             /\ get(after.fs, res'.b) = {key}
             /\ after.fs.inodes[key] = inodes[key]
             /\ get(after.fs, res'.a) = {}
             /\ after.fs.refcounts[key] = refcounts[key]]_vars

\* q has the components of p as a strict prefix of its own
HasStrictPrefix(q, p) ==
    LET cp == Components(p)
        cq == Components(q)
    IN Len(cp) < Len(cq) /\ \A i \in 1..Len(cp) : cq[i] = cp[i]

\* C8: for p resolving to a Directory, rmdir(p) is Ok exactly when no other
\* path of the map has p as a strict component-wise prefix, and fails with
\* DirectoryNotEmpty otherwise.
C8_RmdirOkIffNoChild ==
    [][(/\ Called("rmdir")
        /\ Resolves(paths, res'.a)
        /\ inodes[paths[res'.a]].kind = "Directory")
       => LET child == \E q \in DOMAIN paths : HasStrictPrefix(q, res'.a) IN
          /\ res'.result = "Ok" <=> ~child
          /\ child => res'.result = "DirectoryNotEmpty"]_vars

\* rmdir("a") returned Ok while the sibling "ax" is in the map
C8_Witness ==
    /\ res.op = "rmdir"
    /\ res.result = "Ok"
    /\ res.a = <<"a">>
    /\ <<"a", "x">> \in DOMAIN paths

\* C9: when rmdir(p) returns Ok the association for p is gone: get(p) is
\* NotFound and p is no key of the path map.
C9_RmdirRemovesPath ==
    (res.op = "rmdir" /\ res.result = "Ok")
        => (get(TheFs, res.a) = {} /\ res.a \notin DOMAIN paths)

\* C10: every inode's refcount is at least the number of paths mapped to it,
\* and no unlink has decremented a refcount of zero.
C10_RefcountCoversPaths ==
    /\ \A k \in DOMAIN inodes : refcounts[k] >= Cardinality(PathsTo(paths, k))
    /\ res.result # "PanicOverflow"

\* an unlink took the refcount of a hard-linked inode from 2 to 1
C10_Witness ==
    /\ res.op = "unlink"
    /\ res.result = "Ok"
    /\ \E k \in DOMAIN inodes : refcounts[k] = 1 /\ Cardinality(PathsTo(paths, k)) = 1
                                   /\ res.a \notin PathsTo(paths, k)
                                   /\ Len(inodes) = 1

\* Iter::next over the path map: TRUE when the expect("must exist") fires
IterPanics(fs) == \E p \in DOMAIN fs.paths : fs.paths[p] \notin DOMAIN fs.inodes

\* C11: in every reachable state every inode key that is a value of the path
\* map is present in the inode arena: get on an existing path finds its entry
\* and iteration never meets a missing inode.
C11_PathsPointIntoArena ==
    /\ \A p \in DOMAIN paths : paths[p] \in DOMAIN inodes
    /\ \A p \in DOMAIN paths : get(TheFs, p) = {paths[p]}
    /\ ~IterPanics(TheFs)

\* a path was unlinked and inserted again: the arena holds an inode no path
\* reaches, and the path reaches the new one
C11_Witness ==
    /\ res.op = "insert"
    /\ Len(inodes) = 2
    /\ Cardinality(DOMAIN paths) = 1
    /\ \E k \in DOMAIN inodes : refcounts[k] = 0

\* C14: for p present and q absent, rename(p, q) then rename(q, p) both
\* succeed and leave the path map, every inode and every refcount as they were.
C14_RenameRoundTrip ==
    [][(/\ Called("rename")
        /\ Resolves(paths, res'.a)
        /\ ~Resolves(paths, res'.b))
       => LET back == rename(Fs(inodes', refcounts', paths'), res'.b, res'.a) IN
          /\ res'.result = "Ok"
          /\ back.result = "Ok"
          /\ back.fs.paths = paths
          /\ back.fs.inodes = inodes
          /\ back.fs.refcounts = refcounts]_vars

\* a rename moved a path to a free one while a second path stayed in the map
C14_Witness ==
    /\ res.op = "rename"
    /\ res.result = "Ok"
    /\ res.a \notin DOMAIN paths
    /\ res.b \in DOMAIN paths
    /\ Cardinality(DOMAIN paths) = 2

----------------------------------------------------------------------------
(* Claims about the comparator *)

\* C12: cmp is commutative: cmp(a, b) and cmp(b, a) are the same mask for any
\* two filesystems, also when one has paths the other lacks.
C12_CmpCommutative == cmpres.done => cmpres.ab = cmpres.ba

\* C13: approx_eq(a, b, Fields::all()) holds exactly when a == b, also for
\* Special entries that differ only in file_type or rdev.
C13_ApproxEqAllIffEqual ==
    cmpres.done => ((AllFields \subseteq cmpres.ab) <=> cmpres.eq)

----------------------------------------------------------------------------
(* Claims about sendstream replay *)

\* a receive has been made
Received == recv.result.kind # "none"

\* the places of the Subvol and Snapshot commands of a stream
StartsIn(stream) == {i \in DOMAIN stream : IsStart(stream[i])}

\* the uuids a stream starts
StartedBy(stream) == {stream[i].uuid : i \in StartsIn(stream)}

\* the place of the last command before the start command that follows the
\* one at i, or of the last command of the stream
SegmentEnd(stream, i) ==
    LET later == {j \in StartsIn(stream) : j > i} IN
    IF later = {} THEN Len(stream)
    ELSE (CHOOSE j \in later : \A k \in later : j <= k) - 1

\* the commands between the start command at i and the next start command
Segment(stream, i) == SubSeq(stream, i + 1, SegmentEnd(stream, i))

\* the commands applied to a filesystem one after the other
RECURSIVE ApplyAll(_, _)
ApplyAll(fs, cmds) ==
    IF cmds = <<>> THEN fs ELSE ApplyAll(apply_cmd(fs, Head(cmds)).fs, Tail(cmds))

\* the errors of the store
StoreErrors ==
    {"NotFound", "AlreadyExists", "IsADirectory", "NotADirectory", "DirectoryNotEmpty",
     "WrongEntryType"}

\* C15: receive of a stream whose first command is neither Subvol nor Snapshot
\* fails with InvariantViolated, applies no command and leaves the map as it was.
C15_FirstCommandMustStart ==
    (Received /\ ~IsStart(recv.stream[1]))
        => (/\ recv.result.kind = "InvariantViolated"
            /\ recv.result.at = 0
            /\ subvols = recv.pre)

\* a stream that opens with a store command and goes on with a Subvol was
\* refused by a map that already held a subvol
C15_Witness ==
    /\ Received
    /\ ~IsStart(recv.stream[1])
    /\ Len(recv.stream) >= 2
    /\ recv.stream[2].cmd = "Subvol"
    /\ DOMAIN subvols # {}

\* C16: receive of a stream whose first command is Snapshot(u, c) with c no key
\* of the map fails with MissingParent(c) and leaves the map as it was; a
\* Snapshot(u, c) met mid-stream with c no key of the map at that point fails
\* with MissingParent(c) too.
C16_MissingParent ==
    Received =>
        /\ (recv.stream[1].cmd = "Snapshot" /\ recv.stream[1].clone_uuid \notin DOMAIN recv.pre)
              => (/\ recv.result.kind = "MissingParent"
                  /\ recv.result.uuid = recv.stream[1].clone_uuid
                  /\ subvols = recv.pre)
        /\ \A i \in 2..Len(recv.stream) :
              LET sofar == receive(recv.pre, SubSeq(recv.stream, 1, i - 1)) IN
              (/\ recv.stream[i].cmd = "Snapshot"
               /\ sofar.result.kind = "Ok"
               /\ recv.stream[i].clone_uuid \notin DOMAIN sofar.map)
                  => (/\ recv.result.kind = "MissingParent"
                      /\ recv.result.uuid = recv.stream[i].clone_uuid)

\* a Snapshot of a missing parent opened a stream received by a map that held
\* another subvol
C16_Witness ==
    /\ Received
    /\ recv.stream[1].cmd = "Snapshot"
    /\ recv.stream[1].clone_uuid \notin DOMAIN recv.pre
    /\ DOMAIN recv.pre # {}
    /\ Len(recv.stream) >= 2

RECURSIVE SegmentSubvol(_, _, _)
SegmentSubvol(pre, stream, i) ==
    LET c == stream[i]
        earlier == {j \in StartsIn(stream) : j < i /\ stream[j].uuid = c.clone_uuid}
        base == IF c.cmd = "Subvol" THEN FreshSubvol
                ELSE IF earlier # {}
                THEN SegmentSubvol(pre, stream, Max(earlier))
                ELSE pre[c.clone_uuid]
    IN [parent_uuid |-> IF c.cmd = "Subvol" THEN None ELSE c.clone_uuid,
        fs |-> ApplyAll(base.fs, Segment(stream, i))]

\* C19: after a successful replay of a stream with several start commands of
\* pairwise distinct uuids the map holds every started uuid, each with the
\* filesystem made by exactly the commands between its start command and the
\* next one (or the end of the stream); a mid-stream Snapshot(u2, u1) may name
\* the subvol u1 the same stream began earlier.
C19_EachStartCommitsThePrevious ==
    (/\ Received
     /\ recv.result.kind = "Ok"
     /\ Cardinality(StartsIn(recv.stream)) >= 2
     /\ Cardinality(StartedBy(recv.stream)) = Cardinality(StartsIn(recv.stream)))
        => \A i \in StartsIn(recv.stream) :
              /\ recv.stream[i].uuid \in DOMAIN subvols
              /\ subvols[recv.stream[i].uuid] = SegmentSubvol(recv.pre, recv.stream, i)

\* an empty map received Subvol(u1), a command, then Snapshot(u2, u1): both
\* are in the map and u2 holds what the command made in u1
C19_Witness ==
    /\ Received
    /\ recv.result.kind = "Ok"
    /\ recv.pre = <<>>
    /\ Len(recv.stream) = 3
    /\ recv.stream[1].cmd = "Subvol"
    /\ recv.stream[2].cmd = "Mkfile"
    /\ recv.stream[3].cmd = "Snapshot"
    /\ recv.stream[3].clone_uuid = recv.stream[1].uuid
    /\ DOMAIN subvols = Uuids
    /\ <<"a">> \in DOMAIN subvols[recv.stream[3].uuid].fs.paths

\* C20: when a non-start command hits a store error, receive returns
\* Error::Apply with that command and that error, no later command is applied
\* and the subvol in progress is not committed: the map is what it was when
\* the subvol in progress was started.
C20_StoreErrorAbortsStream ==
    Received =>
        \A i \in 2..Len(recv.stream) :
            LET sofar == receive(recv.pre, SubSeq(recv.stream, 1, i - 1))
                j == Max({k \in StartsIn(recv.stream) : k < i})
                committed == IF j = 1 THEN recv.pre
                             ELSE receive(recv.pre, SubSeq(recv.stream, 1, j - 1)).map
            IN (/\ ~IsStart(recv.stream[i])
                /\ IsStart(recv.stream[1])
                /\ sofar.result.kind = "Ok"
                /\ apply_cmd(sofar.map[recv.stream[j].uuid].fs, recv.stream[i]).result
                      \in StoreErrors)
                   => (/\ recv.result.kind = "Apply"
                       /\ recv.result.command = recv.stream[i]
                       /\ recv.result.error =
                             apply_cmd(sofar.map[recv.stream[j].uuid].fs, recv.stream[i]).result
                       /\ recv.result.at = i - 1
                       /\ subvols = committed)

\* the second subvol of a stream hit a store error: the first is in the map,
\* the second is not
C20_Witness ==
    /\ Received
    /\ recv.result.kind = "Apply"
    /\ recv.pre = <<>>
    /\ Cardinality(StartsIn(recv.stream)) = 2
    /\ Cardinality(DOMAIN subvols) = 1

----------------------------------------------------------------------------
(* Claims about the diff and about equality *)

\* C21: diff(left, right, fields) holds for each path exactly one of: Removed
\* when the path is only in left, Added when it is only in right, Changed
\* {left, right} when it is in both and the entries are not approx_eq under
\* fields, and nothing when it is in both and they are approx_eq.
C21_DiffRecordsPerPath ==
    cmpres.diffed =>
        /\ DOMAIN cmpres.diff \subseteq DOMAIN paths \cup DOMAIN other.paths
        /\ \A p \in DOMAIN paths \cup DOMAIN other.paths :
              LET inLeft == p \in DOMAIN paths
                  inRight == p \in DOMAIN other.paths
                  l == inodes[paths[p]]
                  r == other.inodes[other.paths[p]]
              IN /\ (inLeft /\ ~inRight) => (p \in DOMAIN cmpres.diff /\ cmpres.diff[p] = Removed(l))
                 /\ (~inLeft /\ inRight) => (p \in DOMAIN cmpres.diff /\ cmpres.diff[p] = Added(r))
                 /\ (inLeft /\ inRight /\ ~(cmpres.fields \subseteq entry_cmp(l, r)))
                       => (p \in DOMAIN cmpres.diff /\ cmpres.diff[p] = DiffChanged(l, r))
                 /\ (inLeft /\ inRight /\ cmpres.fields \subseteq entry_cmp(l, r))
                       => p \notin DOMAIN cmpres.diff

\* a diff under the mask {TYPE} holds an Added for one path and nothing for the
\* other, whose entries differ in a field outside the mask
C21_Witness ==
    /\ cmpres.diffed
    /\ cmpres.fields = {"TYPE"}
    /\ \E p \in DOMAIN cmpres.diff : cmpres.diff[p].kind = "Added"
    /\ \E p \in DOMAIN paths \cap DOMAIN other.paths :
          /\ p \notin DOMAIN cmpres.diff
          /\ ~entry_eq(inodes[paths[p]], other.inodes[other.paths[p]])

\* the two filesystems have the same set of paths and, at every path, entries
\* of equal content
SamePathsSameContent(a, b) ==
    /\ DOMAIN a.paths = DOMAIN b.paths
    /\ \A p \in DOMAIN a.paths : entry_eq(a.inodes[a.paths[p]], b.inodes[b.paths[p]])

\* C22: two filesystems are == exactly when they have the same set of paths
\* and equal entry content at every path; inode keys, refcounts and the
\* history of operations do not matter, and removing one path from one of two
\* equal filesystems makes them unequal.
C22_EqualityIgnoresInodeKeys ==
    cmpres.done =>
        /\ cmpres.eq <=> SamePathsSameContent(TheFs, other)
        /\ cmpres.eq =>
              \A p \in DOMAIN paths :
                  /\ ~fs_eq(unlink(TheFs, p).fs, other)
                  /\ ~fs_eq(other, unlink(TheFs, p).fs)

\* two filesystems compared equal whose path is mapped to different inode
\* keys: the left one was inserted twice at the path
C22_Witness ==
    /\ cmpres.done
    /\ cmpres.eq
    /\ DOMAIN paths # {}
    /\ \E p \in DOMAIN paths : paths[p] # other.paths[p]
    /\ refcounts # other.refcounts

\* C23: insert(path, entry) allocates an inode key that no inode uses, makes
\* the path resolve to an entry equal to the given one, sets the refcount of
\* the new inode to 1 and leaves the mapping of every other path unchanged;
\* when the path existed its mapping is replaced and the refcount of the old
\* inode stays as it was.
C23_InsertFrame ==
    [][Called("insert") =>
        LET key == paths'[res'.a] IN
        /\ res'.result = "Ok"
        /\ res'.a \in DOMAIN paths'
        /\ key \notin DOMAIN inodes
        /\ key \in DOMAIN inodes'
        /\ entry_eq(inodes'[key], NewEntry(res'.arg))
        /\ refcounts'[key] = 1
        /\ DOMAIN paths' = DOMAIN paths \cup {res'.a}
        /\ \A p \in DOMAIN paths \ {res'.a} : paths'[p] = paths[p]
        /\ \A k \in DOMAIN inodes : inodes'[k] = inodes[k] /\ refcounts'[k] = refcounts[k]]_vars

\* the filesystem after an insert at a path that was already mapped, to an
\* inode whose refcount is still 1
C23_Witness ==
    /\ res.op = "insert"
    /\ Len(inodes) >= 2
    /\ paths[res.a] = Len(inodes)
    /\ \E k \in DOMAIN inodes :
          /\ k # Len(inodes)
          /\ refcounts[k] = 1
          /\ PathsTo(paths, k) = {}

\* C24: unlink(path) of a missing path fails with NotFound and changes
\* nothing; of an existing path it removes the mapping of that path only and
\* decrements the refcount of that inode only, by one: every other path, the
\* paths below it included, stays mapped as before.
C24_UnlinkFrame ==
    [][Called("unlink") =>
        IF res'.a \notin DOMAIN paths
        THEN /\ res'.result = "NotFound"
             /\ UNCHANGED <<inodes, refcounts, paths>>
        ELSE /\ res'.result = "Ok"
             /\ DOMAIN paths' = DOMAIN paths \ {res'.a}
             /\ \A p \in DOMAIN paths' : paths'[p] = paths[p]
             /\ inodes' = inodes
             /\ refcounts'[paths[res'.a]] = refcounts[paths[res'.a]] - 1
             /\ \A k \in DOMAIN refcounts \ {paths[res'.a]} : refcounts'[k] = refcounts[k]]_vars

\* the filesystem after the unlink of a directory that leaves a path below it
\* mapped
C24_Witness ==
    /\ res.op = "unlink"
    /\ res.result = "Ok"
    /\ \E p \in DOMAIN paths : p # res.a /\ starts_with(p, res.a)

\* C25: the result of cmp(a, b) on two filesystems lacks PATH exactly when
\* the set of paths of a differs from the set of paths of b, whichever way
\* round the two are compared; entries that differ at a shared path do not
\* clear PATH.
C25_PathBitIffPathSetsDiffer ==
    cmpres.done =>
        /\ ("PATH" \notin cmpres.ab) <=> (DOMAIN paths # DOMAIN other.paths)
        /\ ("PATH" \notin cmpres.ba) <=> (DOMAIN paths # DOMAIN other.paths)

\* a comparison of two filesystems with the same paths and different entries
C25_Witness ==
    /\ cmpres.done
    /\ DOMAIN paths = DOMAIN other.paths
    /\ \E p \in DOMAIN paths : ~entry_eq(inodes[paths[p]], other.inodes[other.paths[p]])
    /\ cmpres.ab # AllFields
    /\ "PATH" \in cmpres.ab

ContentFields == {"DATA", "EXTENTS", "RDEV"}

\* C26: cmp of two entries of different variants returns the comparison of
\* their metadata without TYPE: TYPE is not set, MODE, OWNER, XATTR and TIME
\* are set exactly when that part of the metadata is equal, and DATA, EXTENTS
\* and RDEV stay set.
C26_DifferentVariantsCompareMetadata ==
    (ecmp.op = "cmp" /\ ecmp.l.kind # ecmp.r.kind) =>
        /\ ecmp.cmp = metadata_cmp(ecmp.l.metadata, ecmp.r.metadata) \ {"TYPE"}
        /\ "TYPE" \notin ecmp.cmp
        /\ ("MODE" \in ecmp.cmp) <=> (ecmp.l.metadata.mode = ecmp.r.metadata.mode)
        /\ ("OWNER" \in ecmp.cmp) <=> (ecmp.l.metadata.owner = ecmp.r.metadata.owner)
        /\ ("XATTR" \in ecmp.cmp) <=> (ecmp.l.metadata.xattrs = ecmp.r.metadata.xattrs)
        /\ ("TIME" \in ecmp.cmp) <=> (ecmp.l.metadata.times = ecmp.r.metadata.times)
        /\ ContentFields \subseteq ecmp.cmp

\* a Symlink compared against a File holding data, with a different owner
C26_Witness ==
    /\ ecmp.op = "cmp"
    /\ ecmp.l.kind = "Symlink"
    /\ ecmp.r.kind = "File"
    /\ ecmp.r.extents # EmptyFile
    /\ ecmp.l.metadata.owner # ecmp.r.metadata.owner
    /\ ecmp.l.metadata.mode = ecmp.r.metadata.mode

\* C27: cmp of two Special entries lacks TYPE exactly when their file_type
\* differs and lacks RDEV exactly when their rdev differs, besides the bits of
\* the metadata; so two Special entries of different rdev are not approx_eq
\* under a mask that contains RDEV.
C27_SpecialComparesTypeAndRdev ==
    (ecmp.op # "none" /\ ecmp.l.kind = "Special" /\ ecmp.r.kind = "Special") =>
        /\ ("TYPE" \notin ecmp.cmp) <=> (ecmp.l.file_type # ecmp.r.file_type)
        /\ ("RDEV" \notin ecmp.cmp) <=> (ecmp.l.rdev # ecmp.r.rdev)
        /\ ecmp.cmp = special_cmp(ecmp.l, ecmp.r)
        /\ (ecmp.op = "approx_eq" /\ "RDEV" \in ecmp.mask /\ ecmp.l.rdev # ecmp.r.rdev)
              => ~ecmp.ok

\* C28: for two File entries of equal metadata, cmp has DATA exactly when
\* the bytes to_bytes returns are equal and EXTENTS exactly when the extent
\* maps are equal; two files holding the same bytes, one built by one write
\* and one by two appending writes, are approx_eq under all - EXTENTS and not
\* under all.
C28_FileDataAndExtents ==
    (/\ ecmp.op # "none"
     /\ ecmp.l.kind = "File"
     /\ ecmp.r.kind = "File"
     /\ ecmp.l.metadata = ecmp.r.metadata) =>
        /\ ("DATA" \in ecmp.cmp)
              <=> (to_bytes(ecmp.l.extents).bytes = to_bytes(ecmp.r.extents).bytes)
        /\ ("EXTENTS" \in ecmp.cmp) <=> (ecmp.l.extents = ecmp.r.extents)
        /\ ({ecmp.l.extents, ecmp.r.extents} = {OneWrite, TwoWrites} /\ ecmp.op = "approx_eq") =>
              /\ (ecmp.mask = AllFields \ {"EXTENTS"}) => ecmp.ok
              /\ (ecmp.mask = AllFields) => ~ecmp.ok

\* approx_eq under all - EXTENTS of a file built by one write and a file built
\* by two appending writes: same bytes, two extents against one
C28_Witness ==
    /\ ecmp.op = "approx_eq"
    /\ ecmp.mask = AllFields \ {"EXTENTS"}
    /\ ecmp.ok
    /\ ecmp.l.kind = "File"
    /\ ecmp.r.kind = "File"
    /\ ecmp.l.metadata = ecmp.r.metadata
    /\ ecmp.l.extents = OneWrite
    /\ ecmp.r.extents = TwoWrites
    /\ Cardinality(DOMAIN ecmp.l.extents) = 1
    /\ Cardinality(DOMAIN ecmp.r.extents) = 2
    /\ ~to_bytes(ecmp.r.extents).panic

\* C29: a write that starts at ws strictly inside the only extent [s, e) of a
\* file and ends at we < e leaves exactly three extents, keyed s, ws and we,
\* holding the old prefix, the new data and the old suffix; a write that
\* starts there and ends past e leaves exactly two, keyed s and ws, the first
\* cut to end at ws.
C29_WriteInsideSingleExtent ==
    (/\ last.op = "write"
     /\ Cardinality(DOMAIN last.pre) = 1) =>
        LET s == CHOOSE k \in DOMAIN last.pre : TRUE
            old == last.pre[s].data
            e == s + Len(old)
            ws == last.a
            we == ws + last.b
            new == WriteData(nwrites, last.b)
        IN (s < ws /\ ws < e) =>
              /\ (we < e) =>
                    /\ DOMAIN extents = {s, ws, we}
                    /\ Cardinality(DOMAIN extents) = 3
                    /\ extents[s].data = Slice(old, 0, ws - s)
                    /\ extents[ws].data = new
                    /\ extents[we].data = Slice(old, we - s, e - s)
              /\ (we > e) =>
                    /\ DOMAIN extents = {s, ws}
                    /\ Cardinality(DOMAIN extents) = 2
                    /\ extents[s].data = Slice(old, 0, ws - s)
                    /\ extents[ws].data = new

\* the file after a one-byte write at offset 1 of a single three-byte extent
C29_Witness ==
    /\ last.op = "write"
    /\ DOMAIN last.pre = {0}
    /\ Len(last.pre[0].data) = 3
    /\ last.a = 1
    /\ last.b = 1
    /\ Cardinality(DOMAIN extents) = 3

\* the byte at pos lies inside an extent of the file
Covered(f, pos) == \E k \in DOMAIN f : k <= pos /\ pos < k + ExtentLen(f[k])

\* the file has a gap: a position below its length that no extent holds
HasGap(f) == \E pos \in 0..(FileLen(f) - 1) : ~Covered(f, pos)

\* C30: a file with a gap between its extents reads as zeros in the gap and
\* the written bytes at their offsets: to_bytes has the length of the file,
\* Reader::read does not reach its unreachable! arm, and it returns 0 at no
\* position below the length of the file.
C30_GapReadsAsZeros ==
    HasGap(extents) =>
        /\ \A pos \in 0..(FileLen(extents) - 1) :
              /\ ~ReaderRead(extents, pos, 1).panic
              /\ ReaderRead(extents, pos, 1).n > 0
        /\ ~to_bytes(extents).panic
        /\ Len(to_bytes(extents).bytes) = FileLen(extents)
        /\ \A pos \in 0..(FileLen(extents) - 1) :
              ~Covered(extents, pos) => to_bytes(extents).bytes[pos + 1] = ZeroByte

\* the extent map of the file at a path of a filesystem
FileAt(fs, path) == fs.inodes[fs.paths[path]].extents

\* the bytes of a file as to_bytes returns them
BytesOf(f) == to_bytes(f).bytes

\* the extents of a file tile [0, len) and none is empty: the file reads back
\* whole
Tiled(f) ==
    /\ \A k \in DOMAIN f : ExtentLen(f[k]) > 0
    /\ \A pos \in 0..(FileLen(f) - 1) :
          Cardinality({k \in DOMAIN f : k <= pos /\ pos < k + ExtentLen(f[k])}) = 1

\* C31: a Clone(src, src_off, len, dst, dst_off) replayed in one subvol makes
\* the bytes of dst at [dst_off, dst_off + len) those src had at
\* [src_off, src_off + len) before the command, leaves the other bytes of dst
\* and, when the two are different files, the whole of src unchanged, and
\* puts only Cloned extents into dst for that range.
C31_CloneCopiesRange ==
    (/\ res.op = "apply"
     /\ res.cmd.cmd = "Clone"
     /\ res.result = "Ok"
     /\ Tiled(FileAt(res.pre, res.cmd.path))
     /\ Tiled(FileAt(res.pre, res.cmd.to))
     /\ res.cmd.n + res.cmd.len <= FileLen(FileAt(res.pre, res.cmd.path))) =>
        LET c == res.cmd
            src == BytesOf(FileAt(res.pre, c.path))
            old == BytesOf(FileAt(res.pre, c.to))
            dst == FileAt(TheFs, c.to)
            new == BytesOf(dst)
        IN /\ Len(new) >= c.dst_off + c.len
           /\ Slice(new, c.dst_off, c.dst_off + c.len) = Slice(src, c.n, c.n + c.len)
           /\ \A i \in 1..Len(old) :
                 (i <= c.dst_off \/ i > c.dst_off + c.len) => (i <= Len(new) /\ new[i] = old[i])
           /\ (paths[c.path] # paths[c.to]) => FileAt(TheFs, c.path) = FileAt(res.pre, c.path)
           /\ \A k \in DOMAIN dst :
                 (c.dst_off <= k /\ k < c.dst_off + c.len) => dst[k].kind = "Cloned"

\* receive returned Err(_)
ReturnedError == recv.result.kind \notin {"none", "Ok", "Panic"}

\* C32: when receive returns an error of any kind, the Subvols map is what it
\* was before the call: no subvol of the failed stream is in it, also when
\* the stream holds several start commands and fails after the first of them.
C32_FailedReceiveLeavesMap ==
    ReturnedError => subvols = recv.pre

\* the store operations that change an entry through get_mut or get_file_mut
EntryOps == {"chmod", "chown", "set_times", "set_xattr", "truncate", "write"}

\* the change an entry operation made shows in the entry
Shows(op, arg, e) ==
    CASE op = "chmod" -> e.metadata.mode = arg
      [] op = "chown" -> e.metadata.owner = arg
      [] op = "set_times" -> e.metadata.times = arg
      [] op = "set_xattr" -> ("user.k" \in DOMAIN e.metadata.xattrs /\ e.metadata.xattrs["user.k"] = arg)
      [] op = "truncate" -> LenName(FileLen(e.extents)) = arg
      [] OTHER -> e.extents # EmptyFile

C34_ParentsArePresent ==
    \A u \in DOMAIN subvols :
        subvols[u].parent_uuid # None => subvols[u].parent_uuid \in DOMAIN subvols

\* a map that holds a snapshot, after a receive that failed
C34_Witness ==
    /\ ReturnedError
    /\ \E u \in DOMAIN subvols :
          /\ subvols[u].parent_uuid # None
          /\ subvols[u].parent_uuid # u

TruncateExtends ==
    LET len == FileLen(last.pre) IN
    /\ (last.a > len) =>
          /\ DOMAIN extents = DOMAIN last.pre \cup {len}
          /\ Cardinality(DOMAIN extents) = Cardinality(DOMAIN last.pre) + 1
          /\ extents[len] = Hole(last.a - len)
          /\ \A k \in DOMAIN last.pre : extents[k] = last.pre[k]
          /\ to_bytes(extents) =
                [panic |-> FALSE, bytes |-> to_bytes(last.pre).bytes \o Zeros(last.a - len)]
    /\ (last.a = len) => extents = last.pre

C37_NoZeroLengthExtent ==
    \A k \in DOMAIN extents : ExtentLen(extents[k]) > 0

\* C38: FilesystemDiff::diff(left, right, fields) holds no record exactly
\* when left.approx_eq(right, fields | PATH).
C38_DiffEmptyIffApproxEq ==
    cmpres.diffed =>
        ((DOMAIN cmpres.diff = {}) <=> approx_eq(TheFs, other, cmpres.fields \cup {"PATH"}))

\* an empty diff under a mask that leaves fields out, of two filesystems whose
\* entries differ in a field the mask leaves out
C38_Witness ==
    /\ cmpres.diffed
    /\ cmpres.fields # AllFields
    /\ DOMAIN cmpres.diff = {}
    /\ DOMAIN paths # {}
    /\ ~fs_eq(TheFs, other)

\* C39: split_at(k), 0 <= k <= len, leaves a left part of length k and returns
\* a right part of length len - k, and the left bytes followed by the right
\* bytes are the bytes of the extent before the split; this for Owned and
\* Cloned extents and for borrowed and owned storage alike.
C39_SplitKeepsBytes ==
    last.op = "split_at" =>
        LET e == last.pre[0]
            left == extents[0]
            right == last.out[1]
        IN /\ ExtentLen(left) = last.a
           /\ ExtentLen(right) = ExtentLen(e) - last.a
           /\ left.data \o right.data = e.data

\* a split strictly inside an extent whose bytes are kept in a Vec
C39_Witness ==
    /\ last.op = "split_at"
    /\ last.pre[0].cow = "Owned"
    /\ 0 < last.a
    /\ last.a < ExtentLen(last.pre[0])

\* the src_range (a, b) of a Cloned extent spans as many bytes as its data
SrcRangeSpansData(e) ==
    e.kind = "Cloned" =>
        /\ e.src_range[1] <= e.src_range[2]
        /\ e.src_range[2] - e.src_range[1] = ExtentLen(e)

\* C40: every Cloned extent has src_range = (a, b) with a <= b and b - a the
\* length of its data, and splitting a Cloned extent with src_range (a, b) at
\* k gives the left half src_range (a, a + k) and the right half (a + k, b).
C40_ClonedSrcRange ==
    /\ SrcRangeSpansData(extents[0])
    /\ last.op = "split_at" =>
          LET e == last.pre[0]
              left == extents[0]
              right == last.out[1]
          IN /\ SrcRangeSpansData(right)
             /\ e.kind = "Cloned" =>
                   /\ left.src_range = <<e.src_range[1], e.src_range[1] + last.a>>
                   /\ right.src_range = <<e.src_range[1] + last.a, e.src_range[2]>>

====
